---- MODULE Spec2Model ----
(***************************************************************************)
(* drxa: deterministic multi-chain key and address derivation.             *)
(*                                                                         *)
(* Byte strings and text are modelled symbolically.  A text is a sequence  *)
(* of characters (one-character strings; a fixed word such as "wallet" is  *)
(* one token).  Cryptographic primitives (HMAC-SHA512, keccak256, the      *)
(* curve maps, BIP32) are free constructors: two applications are equal    *)
(* exactly when their arguments are (the ideal-hash reading of the         *)
(* libraries the code calls), and every primitive is total on the values   *)
(* the code feeds it.                                                      *)
(***************************************************************************)
EXTENDS Naturals, Sequences, FiniteSets

VARIABLES walletSeed, callerParams, registry, last, again, other, pairOut,
          instances, reach, subs, chainTxs, adapterV2,
          overrides, overrideLog, built, sdkOptions, keypairs, evmSend,
          nonceSt, facadeSt, btcOut, validateSt, incomingSt, pollSt, balSub, btcSend

\* State of the components the derivation and facade operations never touch.
rpcVars == <<overrides, overrideLog, built, sdkOptions>>

finalVars == <<nonceSt, facadeSt, btcOut, validateSt, incomingSt, pollSt, balSub, btcSend>>

laterVars == <<adapterV2, rpcVars, keypairs, evmSend, finalVars>>

extVars == <<instances, reach, subs, chainTxs, laterVars>>

vars == <<walletSeed, callerParams, registry, last, again, other, pairOut, extVars>>

earlierVars ==
  <<walletSeed, callerParams, registry, last, again, other, pairOut,
    instances, reach, subs, chainTxs, adapterV2, rpcVars, keypairs, evmSend>>

---------------------------------------------------------------------------
(* Bounds and input domains *)

\* Total number of characters of scope and userId together, for the single
\* caller of Spec and for the two callers of SpecPair.
MaxLen == 2
MaxPairLen == 3

Alphabet == {"a", ":"}

RECURSIVE StrsOfLen(_)
StrsOfLen(n) ==
  IF n = 0 THEN {<<>>}
  ELSE {Append(s, ch) : s \in StrsOfLen(n - 1), ch \in Alphabet}

Strs(max) == UNION {StrsOfLen(n) : n \in 0..max}

\* The scope and userId every path-based adapter send hard-codes.
WalletScope == <<"wallet">>
DefaultUser == <<"default">>

Indexes == {<<>>, <<"0">>}
PairIndexes == {<<"0">>, <<"1">>}

MasterSeeds == {"seedA", "seedB"}

\* DEFAULT_RPC_URLS keys, in declaration order.
SUPPORTED_CHAINS ==
  <<"ethereum", "bsc", "cronos", "polygon", "avalanche", "fantom",
    "optimism", "arbitrum", "tron", "solana", "polkadot", "bitcoin">>

SupportedChainSet == {SUPPORTED_CHAINS[i] : i \in DOMAIN SUPPORTED_CHAINS}

\* Chain identifiers a caller may pass: the supported ones, the aliases the
\* switch of deriveForChain knows, and one name nobody knows.
Chains ==
  SupportedChainSet \cup {"eth", "base", "binance", "sol", "dot", "btc", "unsupported"}

PairChains == {"ethereum", "arbitrum"}

FieldPairsUpTo(max) ==
  {sp \in Strs(max) \X Strs(max) : Len(sp[1]) + Len(sp[2]) <= max}

FieldPairs == FieldPairsUpTo(MaxLen) \cup {<<WalletScope, DefaultUser>>}

MkParams(scope, userId, chain, index) ==
  [scope |-> scope, userId |-> userId, chain |-> chain, index |-> index]

ParamsDomain ==
  {MkParams(sp[1], sp[2], c, i) : sp \in FieldPairs, c \in Chains, i \in Indexes}

PairParams ==
  {MkParams(sp[1], sp[2], c, i) :
     sp \in FieldPairsUpTo(MaxPairLen), c \in PairChains, i \in PairIndexes}

---------------------------------------------------------------------------
(* Symbolic bytes.  A byte string is a sequence of chunks <<tag, arg, len>>. *)

Chunk(tag, arg, len) == <<tag, arg, len>>

RECURSIVE ByteLen(_)
ByteLen(bytes) ==
  IF bytes = <<>> THEN 0 ELSE Head(bytes)[3] + ByteLen(Tail(bytes))

\* createHmac("sha512", key).update(input).digest(): 64 bytes, the first 32
\* and the last 32 kept as separate chunks so that slice(0, 32) is a prefix.
HmacSha512(key, input) ==
  << Chunk("hmac512-lo", <<key, input>>, 32),
     Chunk("hmac512-hi", <<key, input>>, 32) >>

\* bytes.slice(0, n) and bytes.slice(n) on chunk boundaries.
RECURSIVE SliceTo(_, _)
SliceTo(bytes, n) ==
  IF n = 0 \/ bytes = <<>> THEN <<>>
  ELSE IF Head(bytes)[3] <= n
       THEN <<Head(bytes)>> \o SliceTo(Tail(bytes), n - Head(bytes)[3])
       ELSE << Chunk("prefix", Head(bytes), n) >>

RECURSIVE SliceFrom(_, _)
SliceFrom(bytes, n) ==
  IF n = 0 \/ bytes = <<>> THEN bytes
  ELSE IF Head(bytes)[3] <= n
       THEN SliceFrom(Tail(bytes), n - Head(bytes)[3])
       ELSE << Chunk("suffix", Head(bytes), Head(bytes)[3] - n) >> \o Tail(bytes)

\* @noble/secp256k1 getPublicKey(priv, isCompressed): 33 bytes (parity byte,
\* X) or 65 bytes (0x04, X, Y).
GetSecp256k1Pub(priv, isCompressed) ==
  IF isCompressed
  THEN << Chunk("secp256k1-parity", priv, 1), Chunk("secp256k1-X", priv, 32) >>
  ELSE << Chunk("secp256k1-04", priv, 1), Chunk("secp256k1-X", priv, 32),
          Chunk("secp256k1-Y", priv, 32) >>

\* @noble/ed25519 getPublicKey(seed): 32 bytes.
GetEd25519Pub(priv) == << Chunk("ed25519-pub", priv, 32) >>

\* js-sha3 keccak256(bytes): 32 bytes, returned as 64 hex characters.
Keccak256(bytes) == << Chunk("keccak256", bytes, 32) >>

Min(a, b) == IF a < b THEN a ELSE b

---------------------------------------------------------------------------
(* Address strings: a prefix, an encoding, the number of characters after  *)
(* the prefix (a range where it depends on the value), and the bytes       *)
(* encoded.                                                                *)

Addr(prefix, enc, lo, hi, of) ==
  [prefix |-> prefix, enc |-> enc, lo |-> lo, hi |-> hi, of |-> of]

NoAddr == Addr("", "none", 0, 0, <<>>)
NoBytes == <<>>

\* `0x${hash.slice(-40)}`: the last 40 of the 64 hex characters, i.e. the low
\* 20 bytes of the hash.
HexAddressOfHash(hash) ==
  LET chars == Min(40, 2 * ByteLen(hash))
  IN Addr("0x", "hex", chars, chars, SliceFrom(hash, ByteLen(hash) - chars \div 2))

\* Buffer.from(bytes).toString("hex")
HexOf(bytes) == Addr("", "hex", 2 * ByteLen(bytes), 2 * ByteLen(bytes), bytes)

\* bs58.encode(bytes): one character per leading zero byte at least, and at
\* most ceil(8n / log2(58)) characters.
Bs58Encode(bytes) ==
  Addr("", "base58", ByteLen(bytes), (ByteLen(bytes) * 8000) \div 5858 + 1, bytes)

\* PolkadotKeyring({type: "sr25519"}).addFromSeed(priv).address: SS58 of the
\* sr25519 public key (prefix byte, 32 key bytes, 2 checksum bytes).
Sr25519Address(priv) ==
  Addr("", "ss58", 47, 48, << Chunk("sr25519-pub", priv, 32) >>)

\* String.prototype.toLowerCase / ethers.utils.getAddress on a hex address.
ToLowerCase(addr) ==
  IF addr.enc = "hex-checksum" THEN [addr EXCEPT !.enc = "hex"] ELSE addr

GetAddress(addr) ==
  IF addr.enc = "hex" THEN [addr EXCEPT !.enc = "hex-checksum"] ELSE addr

\* HDKey.fromMasterSeed(seed).derive(path): the child's private key (32) and
\* compressed public key (33).
HDKeyDerive(seed, path) ==
  LET priv == << Chunk("bip32-priv", <<seed, path>>, 32) >>
  IN [privateKey |-> priv, publicKey |-> GetSecp256k1Pub(priv, TRUE)]

---------------------------------------------------------------------------
(* Call outcomes *)

Ok(priv, address, chain) ==
  [ok |-> TRUE, priv |-> priv, address |-> address, chain |-> chain, err |-> <<>>]

Throw(err) ==
  [ok |-> FALSE, priv |-> NoBytes, address |-> NoAddr, chain |-> "", err |-> err]

---------------------------------------------------------------------------
(* src/utils/derivation.ts *)

\* `${scope}:${userId}:${chain}:${index}`
EntropyInput(params) ==
  params.scope \o <<":">> \o params.userId \o <<":">> \o <<params.chain>>
    \o <<":">> \o params.index

\* Variant of deriveEntropy that mixes process state (how many adapters the
\* registry holds) into the hashed string.
DeriveEntropy_readsRegistry(masterSeed, params) ==
  HmacSha512(masterSeed,
             EntropyInput(params)
               \o <<Cardinality({c \in DOMAIN registry : registry[c].kind # "none"})>>)

DeriveEntropy(masterSeed, params) == HmacSha512(masterSeed, EntropyInput(params))

EvmCases == {"eth", "base", "fantom", "polygon", "ethereum", "optimism",
             "arbitrum", "avalanche"}
BscCases == {"bsc", "binance"}
SolCases == {"sol", "solana"}
DotCases == {"dot", "polkadot"}
BtcCases == {"btc", "bitcoin"}

\* Variant of deriveForChain whose default branch applies the EVM rule
\* instead of throwing.
DeriveForChain_defaultIsEvm(masterSeed, params) ==
  LET entropy == DeriveEntropy(masterSeed, params)
      priv == SliceTo(entropy, 32)
      evm == HexAddressOfHash(Keccak256(SliceFrom(GetSecp256k1Pub(priv, TRUE), 1)))
      child == HDKeyDerive(entropy, "m/0'")
  IN CASE params.chain \in EvmCases -> Ok(priv, evm, params.chain)
       [] params.chain \in BscCases -> Ok(priv, evm, "bsc")
       [] params.chain \in SolCases -> Ok(priv, Bs58Encode(GetEd25519Pub(priv)), "solana")
       [] params.chain \in DotCases -> Ok(priv, Sr25519Address(priv), "polkadot")
       [] params.chain \in BtcCases -> Ok(child.privateKey, HexOf(child.publicKey), "bitcoin")
       [] OTHER -> Ok(priv, evm, params.chain)

\* Variant of deriveForChain whose bitcoin branch returns the whole 64-byte
\* entropy as the key and the uncompressed public key as the address.
DeriveForChain_btcRawEntropy(masterSeed, params) ==
  LET entropy == DeriveEntropy(masterSeed, params)
      priv == SliceTo(entropy, 32)
      evm == HexAddressOfHash(Keccak256(SliceFrom(GetSecp256k1Pub(priv, TRUE), 1)))
      child == HDKeyDerive(entropy, "m/0'")
  IN CASE params.chain \in EvmCases -> Ok(priv, evm, params.chain)
       [] params.chain \in BscCases -> Ok(priv, evm, "bsc")
       [] params.chain \in SolCases -> Ok(priv, Bs58Encode(GetEd25519Pub(priv)), "solana")
       [] params.chain \in DotCases -> Ok(priv, Sr25519Address(priv), "polkadot")
       [] params.chain \in BtcCases ->
            Ok(entropy, HexOf(GetSecp256k1Pub(child.privateKey, FALSE)), "bitcoin")
       [] OTHER -> Throw(<<"Unsupported chain: ", params.chain>>)

DeriveForChain(masterSeed, params) ==
  LET entropy == DeriveEntropy(masterSeed, params)
      priv == SliceTo(entropy, 32)
  IN CASE params.chain \in EvmCases ->
            LET pub == GetSecp256k1Pub(priv, TRUE)
                hash == Keccak256(SliceFrom(pub, 1))
            IN Ok(priv, HexAddressOfHash(hash), params.chain)
       [] params.chain \in BscCases ->
            LET pub == GetSecp256k1Pub(priv, TRUE)
                hash == Keccak256(SliceFrom(pub, 1))
            IN Ok(priv, HexAddressOfHash(hash), "bsc")
       [] params.chain \in SolCases ->
            Ok(priv, Bs58Encode(GetEd25519Pub(priv)), "solana")
       [] params.chain \in DotCases ->
            Ok(priv, Sr25519Address(priv), "polkadot")
       [] params.chain \in BtcCases ->
            LET child == HDKeyDerive(entropy, "m/0'")
            IN Ok(child.privateKey, HexOf(child.publicKey), "bitcoin")
       [] OTHER -> Throw(<<"Unsupported chain: ", params.chain>>)

---------------------------------------------------------------------------
(* src/adapters/index.ts: EvmAdapterV2.deriveAddressFromPrivateKey, which  *)
(* is also the account ethers' Wallet(priv) signs for.                     *)

EvmAdapterV2_deriveAddressFromPrivateKey(privateKey) ==
  LET publicKey == GetSecp256k1Pub(privateKey, FALSE)
      publicKeyBytes == SliceFrom(publicKey, 1)
      hash == Keccak256(publicKeyBytes)
  IN GetAddress(HexAddressOfHash(hash))

---------------------------------------------------------------------------
(* src/adapters/evm/EvmAdapter.ts (current): derivePrivateKey overwrites   *)
(* the chain field of the object it is given, then derives from it.        *)

EvmAdapter_paramsAfter(p) == [p EXCEPT !.chain = "ethereum"]

EvmAdapter_derivePrivateKey(seed, p) ==
  LET q == EvmAdapter_paramsAfter(p)
      entropy == DeriveEntropy(seed, q)
      priv == SliceTo(entropy, 32)
      pub == GetSecp256k1Pub(priv, TRUE)
      hash == Keccak256(SliceFrom(pub, 1))
  IN Ok(priv, ToLowerCase(HexAddressOfHash(hash)), "")

---------------------------------------------------------------------------
(* Adapters and the ChainManager registry *)

NoAdapter == [kind |-> "none", chainName |-> "", masterSeed |-> ""]

Adapter(kind, chainName, seed) ==
  [kind |-> kind, chainName |-> chainName, masterSeed |-> seed]

\* `chains` of the path-based EvmAdapter module.
EvmChainList ==
  <<"ethereum", "bsc", "cronos", "polygon", "avalanche", "fantom",
    "optimism", "arbitrum">>

EvmChainSet == {EvmChainList[i] : i \in DOMAIN EvmChainList}

\* ChainManager.register(adapter): binds adapter.chainName to the adapter.
ChainManagerRegister(reg, adapter) ==
  [reg EXCEPT ![adapter.chainName] = adapter]

\* ChainManager.getAdapter(chain)
ChainManagerGetAdapter(reg, chain) ==
  IF chain \in DOMAIN reg THEN reg[chain] ELSE NoAdapter

\* registerEvmAdapters(masterSeed): one path-based EvmAdapter per chain.
RECURSIVE RegisterEvmAdaptersFrom(_, _, _)
RegisterEvmAdaptersFrom(reg, seed, i) ==
  IF i > Len(EvmChainList) THEN reg
  ELSE RegisterEvmAdaptersFrom(
         ChainManagerRegister(reg, Adapter("EvmAdapterPath", EvmChainList[i], seed)),
         seed, i + 1)

RegisterEvmAdapters(reg, seed) == RegisterEvmAdaptersFrom(reg, seed, 1)

RegisterBitcoinAdapter(reg, seed) ==
  ChainManagerRegister(reg, Adapter("BitcoinAdapter", "bitcoin", seed))

\* Path-based adapter send(path, to, amount): the signing key and the
\* account it pays from.
PathParams(chainName, path) == MkParams(WalletScope, DefaultUser, chainName, path)

EvmAdapterPath_send(adapter, path) ==
  LET r == DeriveForChain(adapter.masterSeed, PathParams(adapter.chainName, path))
  IN IF r.ok
     THEN Ok(r.priv, EvmAdapterV2_deriveAddressFromPrivateKey(r.priv), adapter.chainName)
     ELSE r

BitcoinAdapter_send(adapter, path) ==
  DeriveForChain(adapter.masterSeed, PathParams("bitcoin", path))

\* Current EvmAdapter.send(params, ...) handed a string: the assignment
\* params.chain = "ethereum" on a primitive throws in strict mode.
EvmAdapter_sendString(adapter, path) ==
  Throw(<<"TypeError: Cannot create property 'chain' on string">>)

AdapterSend(adapter, path) ==
  CASE adapter.kind = "EvmAdapterPath" -> EvmAdapterPath_send(adapter, path)
    [] adapter.kind = "BitcoinAdapter" -> BitcoinAdapter_send(adapter, path)
    [] adapter.kind = "EvmAdapter" -> EvmAdapter_sendString(adapter, path)
    [] OTHER -> Throw(<<"no adapter">>)

---------------------------------------------------------------------------
(* src/core/HDWallet.ts *)

\* A call record: what was called, with which seed and params, what it
\* returned or threw, and the account the operation acts on (pays from,
\* watches).
Call(fn, seed, in, res, acct) ==
  [fn |-> fn, seed |-> seed, in |-> in, res |-> res, acct |-> acct]

NoCall == Call("none", "", MkParams(<<>>, <<>>, "", <<>>), Throw(<<>>), NoAddr)

\* deriveAddress returns only the address of deriveForChain's result.
AddressOnly(r) == IF r.ok THEN Ok(NoBytes, r.address, "") ELSE r

HDWallet_deriveAddress(seed, p) == AddressOnly(DeriveForChain(seed, p))

\* Variant of HDWallet.send that keeps the lookup it made when the wallet was
\* constructed (nothing registered yet) instead of asking the registry again.
HDWallet_send_cachedAtConstruction(seed, reg, p) ==
  Throw(<<"adapter not registered: ", p.chain>>)

HDWallet_send(seed, reg, p) ==
  LET adapter == ChainManagerGetAdapter(reg, p.chain)
  IN IF adapter = NoAdapter
     THEN Throw(<<"adapter not registered: ", p.chain>>)
     ELSE AdapterSend(adapter, p.index)

\* Variant of HDWallet.subscribe that never consults the registry.
HDWallet_subscribe_noLookup(seed, reg, p) == HDWallet_deriveAddress(seed, p)

HDWallet_subscribe(seed, reg, p) ==
  LET a == HDWallet_deriveAddress(seed, p)
      adapter == ChainManagerGetAdapter(reg, p.chain)
  IN IF ~a.ok THEN a
     ELSE IF adapter = NoAdapter
          THEN Throw(<<"adapter not registered: ", p.chain>>)
          ELSE a


---------------------------------------------------------------------------
(* Two callers: two params objects drawn at the start, and one function of *)
(* the derivation code applied to both.                                    *)

Pair(fn, inA, inB, fedA, fedB, a, b) ==
  [fn |-> fn, inA |-> inA, inB |-> inB, fedA |-> fedA, fedB |-> fedB,
   a |-> a, b |-> b]

NoPair == Pair("none", NoCall.in, NoCall.in, <<>>, <<>>, Throw(<<>>), Throw(<<>>))

---------------------------------------------------------------------------
(* The process: one master seed, one callerParams object the caller holds, the   *)
(* registry, the latest call and a later repetition of it.                 *)

EmptyRegistry == [c \in Chains |-> NoAdapter]

\* Nothing constructed yet.
NoInstances == <<>>
NoneReachable == [c \in Chains |-> {}]

RegistryIdle == instances = NoInstances /\ reach = NoneReachable

\* No subscription yet and no transaction on the watched address.
SubsIdle == subs = <<>> /\ chainTxs = {}

\* Result of an operation of an adapter built on BaseAdapter.
V2Result(ok, err) == [ok |-> ok, err |-> err]

AdapterV2(phase, wsOpen, open, opened, callbacks, shutdownCalled, op, res) ==
  [phase |-> phase, wsOpen |-> wsOpen, open |-> open, opened |-> opened,
   callbacks |-> callbacks, shutdownCalled |-> shutdownCalled,
   op |-> op, res |-> res]

\* No EvmAdapterV2 constructed.
NoAdapterV2 == AdapterV2("none", FALSE, {}, 0, 0, FALSE, "none", V2Result(TRUE, <<>>))

LifecycleIdle == adapterV2 = NoAdapterV2

\* overrides[chain] of a chain nobody overrode, DEFAULT_RPC_URLS[chain] of a
\* chain that has no defaults.
Undefined == [undefined |-> TRUE]

\* No adapter constructed for the chain.
NotBuilt == [notBuilt |-> TRUE]

RpcChainSet == SupportedChainSet \cup {"dogecoin"}

\* const overrides = {};
NoOverrides == [c \in RpcChainSet |-> Undefined]

RpcIdle ==
  /\ overrides = NoOverrides
  /\ overrideLog = <<>>
  /\ built = [c \in RpcChainSet |-> NotBuilt]
  /\ sdkOptions = <<>>

\* generateEd25519Keypair not called yet.
KeypairIdle == keypairs = <<>>

\* A recipient string by its shape: prefix, number of characters after it,
\* whether those are all hex digits, and their letter case.
Recipient(prefix, len, allHex, case) ==
  [prefix |-> prefix, len |-> len, allHex |-> allHex, case |-> case]

EvmSend(to, step, nonceFetched, signed, broadcast, err) ==
  [to |-> to, step |-> step, nonceFetched |-> nonceFetched, signed |-> signed,
   broadcast |-> broadcast, err |-> err]

\* No send called yet.
NoEvmSend == EvmSend(Recipient("", 0, TRUE, "lower"), "idle", FALSE, FALSE, FALSE, <<>>)

EvmSendIdle == evmSend = NoEvmSend

\* State of concurrent EVM sends from one address: the calls made so far and
\* the number of transactions of the address the node knows, pending ones
\* included.
NonceState(calls, pending) == [calls |-> calls, pending |-> pending]

NonceIdle == nonceSt = NonceState(<<>>, 0)

\* One call through the facade: the operation, how far it got, how often the
\* adapter was invoked, the error the adapter raised and what the caller got.
FacadeState(op, step, attempts, raised, res) ==
  [op |-> op, step |-> step, attempts |-> attempts, raised |-> raised, res |-> res]

FacadeIdle == facadeSt = FacadeState("none", "idle", 0, <<>>, V2Result(TRUE, <<>>))

\* Results of the Bitcoin derivations applied to the caller's params.
NoBtcResult == [done |-> FALSE, priv |-> NoBytes, address |-> NoAddr]

BtcIdle ==
  btcOut = [deriveForChain |-> NoBtcResult, derivePrivateKey |-> NoBtcResult,
            deriveAddress |-> NoBtcResult]

\* JavaScript values handed to validateDeriveParams.
JsString(chars) == [t |-> "string", v |-> chars]
JsNumber(digits) == [t |-> "number", v |-> digits]
JsUndefined == [t |-> "undefined", v |-> <<>>]
JsNull == [t |-> "null", v |-> <<>>]
JsObject(scope, userId, chain, index) ==
  [t |-> "object", scope |-> scope, userId |-> userId, chain |-> chain,
   index |-> index]

ValidateState(in, step, res, derived) ==
  [in |-> in, step |-> step, res |-> res, derived |-> derived]

ValidateIdle ==
  validateSt = ValidateState(JsUndefined, "idle", V2Result(TRUE, <<>>), V2Result(TRUE, <<>>))

\* Transactions on the chain and, per adapter, the transactions its
\* subscription handed to onIncoming.
IncomingState(txs, delivered) == [txs |-> txs, delivered |-> delivered]

IncomingIdle ==
  incomingSt = IncomingState({}, [k \in {"bitcoin", "solana", "evm"} |-> {}])

\* A polling subscription: the transactions the explorer lists for the address
\* (newest first), the requests of the interval callback that are in flight,
\* the closure's seen set, and how often onIncoming was called per tx id.
PollState(listed, requests, seen, calls, ticks, threw) ==
  [listed |-> listed, requests |-> requests, seen |-> seen, calls |-> calls,
   ticks |-> ticks, threw |-> threw]

PollTxIds == {"t1", "t2"}

PollIdle ==
  pollSt = PollState(<<>>, <<>>, {}, [t \in PollTxIds |-> 0], 0, 0)

\* EvmAdapter.subscribe: the address's balance on the chain, the closure's
\* `last`, the balance read at subscribe time, the getBalance requests of the
\* block handlers in flight and the sum of the amounts passed to onIncoming.
BalanceSub(subscribed, balance, initial, lastBal, requests, blocks, sum) ==
  [subscribed |-> subscribed, balance |-> balance, initial |-> initial,
   last |-> lastBal, requests |-> requests, blocks |-> blocks, sum |-> sum]

BalanceIdle ==
  balSub = BalanceSub(FALSE, 0, 0, 0, <<>>, 0, 0)

\* One BitcoinAdapter.send: which of the three versions of send runs, its
\* arguments, the UTXO values the explorer listed, and what the PSBT holds.
BtcSend(variant, rate, amount, utxos, step, inputs, inputSum, fee, change, err) ==
  [variant |-> variant, rate |-> rate, amount |-> amount, utxos |-> utxos,
   step |-> step, inputs |-> inputs, inputSum |-> inputSum, fee |-> fee,
   change |-> change, err |-> err]

NoBtcSend == BtcSend("none", 0, 0, <<>>, "idle", 0, 0, 0, 0, <<>>)

BtcSendIdle ==
  btcSend = NoBtcSend

FinalIdle == NonceIdle /\ FacadeIdle /\ BtcIdle /\ ValidateIdle /\ IncomingIdle /\ PollIdle /\ BalanceIdle /\ BtcSendIdle

LaterIdle == LifecycleIdle /\ RpcIdle /\ KeypairIdle /\ EvmSendIdle /\ FinalIdle

ExtIdle == RegistryIdle /\ SubsIdle /\ LaterIdle

Init ==
  /\ walletSeed \in MasterSeeds
  /\ callerParams \in ParamsDomain
  /\ registry = EmptyRegistry
  /\ last = NoCall
  /\ again = NoCall
  /\ other = callerParams
  /\ pairOut = NoPair
  /\ ExtIdle

\* new WalletSDK({seed}): registerEvmAdapters, registerBitcoinAdapter.
NewWalletSDK ==
  /\ registry' = RegisterBitcoinAdapter(RegisterEvmAdapters(registry, walletSeed), walletSeed)
  /\ UNCHANGED <<walletSeed, callerParams, last, again, other, pairOut>>
  /\ UNCHANGED <<subs, chainTxs, laterVars>>
  /\ UNCHANGED extVars

\* new EvmAdapter({chainName}, seed) (current module): registers itself.
NewEvmAdapter ==
  /\ callerParams.chain \in EvmChainSet
  /\ registry' = ChainManagerRegister(registry, Adapter("EvmAdapter", callerParams.chain, walletSeed))
  /\ UNCHANGED <<walletSeed, callerParams, last, again, other, pairOut>>
  /\ UNCHANGED <<subs, chainTxs, laterVars>>
  /\ UNCHANGED extVars

CallDeriveForChain ==
  /\ last' = Call("deriveForChain", walletSeed, callerParams,
                  DeriveForChain(walletSeed, callerParams), NoAddr)
  /\ again' = NoCall
  /\ UNCHANGED <<walletSeed, callerParams, registry, other, pairOut>>
  /\ UNCHANGED extVars

CallDeriveAddress ==
  /\ last' = Call("HDWallet.deriveAddress", walletSeed, callerParams,
                  HDWallet_deriveAddress(walletSeed, callerParams), NoAddr)
  /\ again' = NoCall
  /\ UNCHANGED <<walletSeed, callerParams, registry, other, pairOut>>
  /\ UNCHANGED extVars

CallSend ==
  /\ LET r == HDWallet_send(walletSeed, registry, callerParams)
     IN last' = Call("HDWallet.send", walletSeed, callerParams, r, r.address)
  /\ again' = NoCall
  /\ UNCHANGED <<walletSeed, callerParams, registry, other, pairOut>>
  /\ UNCHANGED extVars

CallSubscribe ==
  /\ LET r == HDWallet_subscribe(walletSeed, registry, callerParams)
     IN last' = Call("HDWallet.subscribe", walletSeed, callerParams, r, r.address)
  /\ again' = NoCall
  /\ UNCHANGED <<walletSeed, callerParams, registry, other, pairOut>>
  /\ UNCHANGED extVars

\* adapter.deriveAddress(callerParams) on the current EvmAdapter registered for
\* the chain: the caller's object comes back with chain = "ethereum".
CallAdapterDeriveAddress ==
  /\ ChainManagerGetAdapter(registry, callerParams.chain).kind = "EvmAdapter"
  /\ last' = Call("EvmAdapter.deriveAddress", walletSeed, callerParams,
                  AddressOnly(EvmAdapter_derivePrivateKey(walletSeed, callerParams)), NoAddr)
  /\ callerParams' = EvmAdapter_paramsAfter(callerParams)
  /\ again' = NoCall
  /\ UNCHANGED <<walletSeed, registry, other, pairOut>>
  /\ UNCHANGED extVars

DeriveFns == {"deriveForChain", "HDWallet.deriveAddress"}

\* A later call of the same entry point (after an adapter call: of either
\* entry point) with the object the caller still holds.
CallAgain ==
  /\ last.fn \in DeriveFns \cup {"EvmAdapter.deriveAddress"}
  /\ again = NoCall
  /\ \E fn \in DeriveFns :
       /\ last.fn \in DeriveFns => fn = last.fn
       /\ again' = Call(fn, walletSeed, callerParams,
                        IF fn = "deriveForChain"
                        THEN DeriveForChain(walletSeed, callerParams)
                        ELSE HDWallet_deriveAddress(walletSeed, callerParams),
                        NoAddr)
  /\ UNCHANGED <<walletSeed, callerParams, registry, last, other, pairOut>>
  /\ UNCHANGED extVars

Next ==
  \/ NewWalletSDK
  \/ NewEvmAdapter
  \/ CallDeriveForChain
  \/ CallDeriveAddress
  \/ CallSend
  \/ CallSubscribe
  \/ CallAdapterDeriveAddress
  \/ CallAgain

Spec == Init /\ [][Next]_vars

InitPair ==
  /\ walletSeed = "seedA"
  /\ callerParams \in PairParams
  /\ other \in PairParams
  /\ registry = EmptyRegistry
  /\ last = NoCall
  /\ again = NoCall
  /\ pairOut = NoPair
  /\ ExtIdle

\* deriveEntropy on both objects: the string fed to the keyed hash and the
\* 64 bytes that come out.
PairDeriveEntropy ==
  /\ pairOut' = Pair("deriveEntropy", callerParams, other,
                     EntropyInput(callerParams), EntropyInput(other),
                     Ok(DeriveEntropy(walletSeed, callerParams), NoAddr, ""),
                     Ok(DeriveEntropy(walletSeed, other), NoAddr, ""))
  /\ UNCHANGED <<walletSeed, callerParams, registry, last, again, other>>
  /\ UNCHANGED extVars

PairDeriveForChain ==
  /\ pairOut' = Pair("deriveForChain", callerParams, other,
                     EntropyInput(callerParams), EntropyInput(other),
                     DeriveForChain(walletSeed, callerParams),
                     DeriveForChain(walletSeed, other))
  /\ UNCHANGED <<walletSeed, callerParams, registry, last, again, other>>
  /\ UNCHANGED extVars

\* derivePrivateKey of the current EvmAdapter registered for each object's
\* chain; both objects come back with chain = "ethereum".
PairAdapterDerivePrivateKey ==
  /\ pairOut' = Pair("EvmAdapter.derivePrivateKey", callerParams, other,
                     EntropyInput(EvmAdapter_paramsAfter(callerParams)),
                     EntropyInput(EvmAdapter_paramsAfter(other)),
                     EvmAdapter_derivePrivateKey(walletSeed, callerParams),
                     EvmAdapter_derivePrivateKey(walletSeed, other))
  /\ callerParams' = EvmAdapter_paramsAfter(callerParams)
  /\ other' = EvmAdapter_paramsAfter(other)
  /\ UNCHANGED <<walletSeed, registry, last, again>>
  /\ UNCHANGED extVars

NextPair ==
  \/ PairDeriveEntropy
  \/ PairDeriveForChain
  \/ PairAdapterDerivePrivateKey

SpecPair == InitPair /\ [][NextPair]_vars

---------------------------------------------------------------------------
(* Shapes the properties below speak about *)

\* Chain identifiers that have a case label in the switch of deriveForChain.
MappedChains == EvmCases \cup BscCases \cup SolCases \cup DotCases \cup BtcCases

\* The chain name each case of deriveForChain returns for its labels.
CanonicalChain(chain) ==
  CASE chain \in EvmCases -> chain
    [] chain \in BscCases -> "bsc"
    [] chain \in SolCases -> "solana"
    [] chain \in DotCases -> "polkadot"
    [] chain \in BtcCases -> "bitcoin"
    [] OTHER -> ""

HasEmptyField(p) == p.scope = <<>> \/ p.userId = <<>> \/ p.index = <<>>

\* /^0x[0-9a-fA-F]{40}$/
IsEvmFormat(addr) ==
  addr.prefix = "0x" /\ addr.enc \in {"hex", "hex-checksum"} /\ addr.lo = 40 /\ addr.hi = 40

\* /^[1-9A-HJ-NP-Za-km-z]{32,44}$/
IsSolanaFormat(addr) ==
  addr.prefix = "" /\ addr.enc = "base58" /\ addr.lo >= 32 /\ addr.hi <= 44

\* /^bc1p[a-z0-9]{58}$/
IsTaprootFormat(addr) ==
  addr.prefix = "bc1p" /\ addr.enc = "bech32m" /\ addr.lo = 58 /\ addr.hi = 58

\* /^[0-9a-fA-F]{66}$/ holding a compressed secp256k1 public key.
IsCompressedPubKeyHex(addr) ==
  /\ addr.prefix = "" /\ addr.enc = "hex" /\ addr.lo = 66 /\ addr.hi = 66
  /\ Len(addr.of) = 2
  /\ addr.of[1][1] = "secp256k1-parity"

SameButChain(p, q) ==
  p.scope = q.scope /\ p.userId = q.userId /\ p.index = q.index /\ p.chain # q.chain

---------------------------------------------------------------------------
(* Properties *)

C2_EntropyInputInjective ==
  (/\ pairOut.fn = "deriveEntropy"
   /\ ~HasEmptyField(pairOut.inA) /\ ~HasEmptyField(pairOut.inB)
   /\ pairOut.inA # pairOut.inB)
    => pairOut.fedA # pairOut.fedB

\* C3: deriveForChain and HDWallet.deriveAddress reject params whose scope,
\* userId or index is empty and produce no key or address for them.
C3_EmptyFieldRejected ==
  (last.fn \in DeriveFns /\ HasEmptyField(last.in))
    => (~last.res.ok /\ last.res.priv = NoBytes /\ last.res.address = NoAddr)

\* C4: deriveForChain throws 'Unsupported chain: <chain>' and returns no key
\* or address for every chain without a mapping rule, and returns a result
\* for every chain with one.
C4_UnsupportedChain ==
  last.fn = "deriveForChain"
    => IF last.in.chain \in MappedChains
       THEN last.res.ok /\ last.res.err = <<>>
       ELSE /\ ~last.res.ok
            /\ last.res.err = <<"Unsupported chain: ", last.in.chain>>
            /\ last.res.priv = NoBytes
            /\ last.res.address = NoAddr

C4_UnknownChainThrown ==
  /\ last.fn = "deriveForChain"
  /\ last.in.chain = "unsupported"
  /\ ~last.res.ok
  /\ last.res.err = <<"Unsupported chain: ", "unsupported">>

\* C5: for every chain in SUPPORTED_CHAINS, HDWallet.deriveAddress with
\* non-empty scope, userId and index returns an address.
C5_SupportedChainsDerive ==
  (/\ last.fn = "HDWallet.deriveAddress"
   /\ last.in.chain \in SupportedChainSet
   /\ ~HasEmptyField(last.in))
    => (last.res.ok /\ last.res.address # NoAddr)

\* C6: the address HDWallet.deriveAddress returns is '0x' + 40 hex characters
\* for ethereum, base58 of 32 to 44 characters for solana, and a taproot
\* address ('bc1p' + 58 characters) for bitcoin.
C6_NativeAddressFormat ==
  (last.fn = "HDWallet.deriveAddress" /\ last.res.ok)
    => /\ last.in.chain = "ethereum" => IsEvmFormat(last.res.address)
       /\ last.in.chain = "solana" => IsSolanaFormat(last.res.address)
       /\ last.in.chain = "bitcoin" => IsTaprootFormat(last.res.address)

\* C7 as stated: deriveForChain returns a 32-byte private key and the chain
\* name of its input, with a '0x' + 40 hex address for ethereum and the
\* 66-hex compressed public key for bitcoin.
C7_ResultEchoesInputChain ==
  (last.fn = "deriveForChain" /\ last.res.ok)
    => /\ ByteLen(last.res.priv) = 32
       /\ last.res.chain = last.in.chain
       /\ last.in.chain = "ethereum" => IsEvmFormat(last.res.address)
       /\ last.in.chain = "bitcoin" => IsCompressedPubKeyHex(last.res.address)

\* C7: deriveForChain returns a 32-byte private key and the canonical chain
\* name of its input (the input itself, except that 'binance' gives 'bsc',
\* 'sol' gives 'solana', 'dot' gives 'polkadot' and 'btc' gives 'bitcoin');
\* for 'ethereum' the address is '0x' + 40 hex characters and for 'bitcoin'
\* it is the 66-hex compressed public key.
C7_ResultShape ==
  (last.fn = "deriveForChain" /\ last.res.ok)
    => /\ ByteLen(last.res.priv) = 32
       /\ last.res.chain = CanonicalChain(last.in.chain)
       /\ last.in.chain \notin {"binance", "sol", "dot", "btc"}
            => last.res.chain = last.in.chain
       /\ last.in.chain = "ethereum" => IsEvmFormat(last.res.address)
       /\ last.in.chain \in BtcCases => IsCompressedPubKeyHex(last.res.address)

C7_AliasDerived ==
  /\ last.fn = "deriveForChain" /\ last.res.ok
  /\ last.in.chain = "btc" /\ last.res.chain = "bitcoin"
  /\ ByteLen(last.res.priv) = 32
  /\ IsCompressedPubKeyHex(last.res.address)

\* C8: for the EVM chains the address deriveForChain returns equals, up to
\* letter case, the address EvmAdapterV2.deriveAddressFromPrivateKey computes
\* for the returned key (the hash of the uncompressed public key without its
\* prefix byte, low 20 bytes).
C8_EvmAddressMatchesSigner ==
  (/\ last.fn = "deriveForChain" /\ last.res.ok
   /\ last.in.chain \in EvmCases \cup BscCases)
    => ToLowerCase(last.res.address)
         = ToLowerCase(EvmAdapterV2_deriveAddressFromPrivateKey(last.res.priv))

\* C9: with the same secret, scope, userId and index, two different chain
\* values give different keys (and addresses), for deriveEntropy, for
\* deriveForChain and for the key the adapter registered for each chain
\* derives.
C9_CrossChainIndependence ==
  (pairOut.fn # "none" /\ SameButChain(pairOut.inA, pairOut.inB))
    => /\ pairOut.a.priv # pairOut.b.priv
       /\ pairOut.fn # "deriveEntropy" => pairOut.a.address # pairOut.b.address

\* C10: the address HDWallet.deriveAddress(params) returns is the account
\* HDWallet.send(params, ...) pays from and the address
\* HDWallet.subscribe(params, ...) watches.
C10_SendAndSubscribeUseDerivedAddress ==
  (last.fn \in {"HDWallet.send", "HDWallet.subscribe"} /\ last.res.ok)
    => LET derived == HDWallet_deriveAddress(last.seed, last.in)
       IN derived.ok /\ ToLowerCase(last.acct) = ToLowerCase(derived.address)

\* C11: after an adapter registers itself, a lookup of its chain name returns
\* that adapter, and a binding changes only when an adapter registers; the
\* facade looks the adapter up in the registry as it is at the time of each
\* send and subscribe call.
C11_LookupOnEveryCall ==
  [][ /\ NewEvmAdapter
           => ChainManagerGetAdapter(registry', callerParams.chain)
                = Adapter("EvmAdapter", callerParams.chain, walletSeed)
      /\ NewWalletSDK
           => /\ \A c \in EvmChainSet :
                   ChainManagerGetAdapter(registry', c)
                     = Adapter("EvmAdapterPath", c, walletSeed)
              /\ ChainManagerGetAdapter(registry', "bitcoin")
                   = Adapter("BitcoinAdapter", "bitcoin", walletSeed)
      /\ \A c \in Chains :
           registry'[c] # registry[c]
             => \/ NewWalletSDK
                \/ NewEvmAdapter /\ c = callerParams.chain
      /\ CallSend
           => LET adapter == ChainManagerGetAdapter(registry, callerParams.chain)
              IN last'.res = IF adapter = NoAdapter
                             THEN Throw(<<"adapter not registered: ", callerParams.chain>>)
                             ELSE AdapterSend(adapter, callerParams.index)
      /\ CallSubscribe
           => (last'.res.ok
                 => ChainManagerGetAdapter(registry, callerParams.chain) # NoAdapter)
    ]_vars

C11_LateAdapterUsed ==
  /\ last.fn = "HDWallet.send"
  /\ registry[last.in.chain].kind = "EvmAdapter"
  /\ last.res = EvmAdapter_sendString(registry[last.in.chain], last.in.index)

\* C13 as stated: HDWallet.send and HDWallet.subscribe for a chain without a
\* registered adapter fail with an adapter-not-registered error and use no
\* adapter.
C13_NotRegisteredError ==
  (/\ last.fn \in {"HDWallet.send", "HDWallet.subscribe"}
   /\ registry[last.in.chain] = NoAdapter)
    => /\ ~last.res.ok
       /\ last.res.err = <<"adapter not registered: ", last.in.chain>>
       /\ last.acct = NoAddr

\* C13: HDWallet.send and HDWallet.subscribe for a chain without a registered
\* adapter fail and use no adapter; the error is adapter-not-registered,
\* except that subscribe for a chain without a mapping rule fails earlier
\* with 'Unsupported chain: <chain>'.
C13_NoAdapterFails ==
  (/\ last.fn \in {"HDWallet.send", "HDWallet.subscribe"}
   /\ registry[last.in.chain] = NoAdapter)
    => /\ ~last.res.ok
       /\ last.acct = NoAddr
       /\ last.res.err =
            IF last.fn = "HDWallet.subscribe" /\ last.in.chain \notin MappedChains
            THEN <<"Unsupported chain: ", last.in.chain>>
            ELSE <<"adapter not registered: ", last.in.chain>>

C13_DerivableButUnregistered ==
  /\ last.fn = "HDWallet.subscribe"
  /\ last.in.chain = "polkadot"
  /\ HDWallet_deriveAddress(last.seed, last.in).ok
  /\ registry # EmptyRegistry
  /\ registry["polkadot"] = NoAdapter
  /\ last.res.err = <<"adapter not registered: ", "polkadot">>

---------------------------------------------------------------------------
(* Registration by object identity: every adapter constructor registers    *)
(* the object it builds.  instances logs the objects in construction order *)
(* (an object's identity is its position), reach gives the objects the     *)
(* registry can return for a chain name.                                   *)

MaxRegOps == 2

\* SUPPORTED_EVM_CHAINS of constants/config: the EVM chains with endpoints.
SUPPORTED_EVM_CHAINS == EvmChainList

Instance(adapter, op) == [adapter |-> adapter, op |-> op]

\* ChainManager.register(this) seen by identity: the name is bound to the
\* new object only.
ChainManagerBind_keepsEarlier(rch, chainName, id) ==
  [rch EXCEPT ![chainName] = rch[chainName] \cup {id}]

ChainManagerBind(rch, chainName, id) == [rch EXCEPT ![chainName] = {id}]

RegState(reg, inst, rch) == [registry |-> reg, instances |-> inst, reach |-> rch]

\* A constructor whose last statement is ChainManager.register(this).
Construct(st, adapter, op) ==
  RegState(ChainManagerRegister(st.registry, adapter),
           Append(st.instances, Instance(adapter, op)),
           ChainManagerBind(st.reach, adapter.chainName, Len(st.instances) + 1))

\* EvmAdapter.registerAdapter(): a new EvmAdapter for every chain of
\* SUPPORTED_EVM_CHAINS, built from this adapter's seed.
RECURSIVE EvmAdapter_registerAdapterFrom(_, _, _, _)
EvmAdapter_registerAdapterFrom(st, seed, op, i) ==
  IF i > Len(SUPPORTED_EVM_CHAINS) THEN st
  ELSE EvmAdapter_registerAdapterFrom(
         Construct(st, Adapter("EvmAdapter", SUPPORTED_EVM_CHAINS[i], seed), op),
         seed, op, i + 1)

EvmAdapter_registerAdapter(st, seed, op) ==
  EvmAdapter_registerAdapterFrom(st, seed, op, 1)

\* registerAllAdapters(masterSeed): bitcoin, ethereum (and through its
\* registerAdapter every EVM chain), solana.
RegisterAllAdapters(st, seed, op) ==
  LET s1 == Construct(st, Adapter("BitcoinAdapter", "bitcoin", seed), op)
      s2 == Construct(s1, Adapter("EvmAdapter", "ethereum", seed), op)
      s3 == EvmAdapter_registerAdapter(s2, seed, op)
  IN Construct(s3, Adapter("SolanaAdapter", "solana", seed), op)

RegOps == IF instances = <<>> THEN 0 ELSE instances[Len(instances)].op

CurrentRegState == RegState(registry, instances, reach)

SetRegState(st) ==
  /\ registry' = st.registry
  /\ instances' = st.instances
  /\ reach' = st.reach

InitRegistry ==
  /\ walletSeed \in MasterSeeds
  /\ callerParams = PathParams("ethereum", <<"0">>)
  /\ other = callerParams
  /\ registry = EmptyRegistry
  /\ last = NoCall
  /\ again = NoCall
  /\ pairOut = NoPair
  /\ ExtIdle

\* new WalletSDK({seed}) (current): new HDWallet, registerAllAdapters.
RegNewWalletSDK ==
  /\ RegOps < MaxRegOps
  /\ \E seed \in MasterSeeds :
       SetRegState(RegisterAllAdapters(CurrentRegState, seed, RegOps + 1))
  /\ UNCHANGED <<walletSeed, callerParams, last, again, other, pairOut>>
  /\ UNCHANGED <<subs, chainTxs, laterVars>>

\* registerAdapter() called on the EvmAdapter bound to 'ethereum'.
RegRegisterAdapter ==
  /\ RegOps < MaxRegOps
  /\ registry["ethereum"].kind = "EvmAdapter"
  /\ SetRegState(EvmAdapter_registerAdapter(CurrentRegState,
                                            registry["ethereum"].masterSeed,
                                            RegOps + 1))
  /\ UNCHANGED <<walletSeed, callerParams, last, again, other, pairOut>>
  /\ UNCHANGED <<subs, chainTxs, laterVars>>

\* new EvmAdapter({chainName}, seed) by the application.
RegNewEvmAdapter ==
  /\ RegOps < MaxRegOps
  /\ \E chain \in EvmChainSet, seed \in MasterSeeds :
       SetRegState(Construct(CurrentRegState, Adapter("EvmAdapter", chain, seed),
                             RegOps + 1))
  /\ UNCHANGED <<walletSeed, callerParams, last, again, other, pairOut>>
  /\ UNCHANGED <<subs, chainTxs, laterVars>>

NextRegistry ==
  \/ RegNewWalletSDK
  \/ RegRegisterAdapter
  \/ RegNewEvmAdapter

SpecRegistry == InitRegistry /\ [][NextRegistry]_vars

\* The objects constructed so far for a chain name.
InstancesOf(chainName) ==
  {i \in DOMAIN instances : instances[i].adapter.chainName = chainName}

Latest(ids) == CHOOSE i \in ids : \A j \in ids : j <= i

---------------------------------------------------------------------------
(* Polling subscriptions (BitcoinAdapter.subscribe, SolanaAdapter.subscribe): *)
(* each call creates its own seen set and its own interval timer; a tick   *)
(* of the timer sends a request, and the rest of the callback runs when    *)
(* the response arrives.                                                   *)

MaxSubs == 2

\* Transactions that appear on the watched address, in this order.
TxIds == <<"t1", "t2">>

Subscription(interval, inflight, seen, polled, delivered, late, unsubCalls) ==
  [interval |-> interval, inflight |-> inflight, seen |-> seen,
   polled |-> polled, delivered |-> delivered, late |-> late,
   unsubCalls |-> unsubCalls]

\* subscribe(address, onIncoming): const seen = new Set(); setInterval(...).
NewSubscription == Subscription("running", FALSE, {}, {}, {}, {}, 0)

\* Variant of the de-duplication test that consults one set shared by all
\* subscriptions of the adapter.
Unseen_sharedSet(s, txs) == txs \ UNION {subs[i].seen : i \in DOMAIN subs}

\* for (const tx of txs) if (!seen.has(tx.txid)) ...
Unseen(s, txs) == txs \ subs[s].seen

\* The body of the timer callback after the response: every transaction not
\* in the subscription's seen set is added to it and handed to onIncoming.
DeliverResponse(s, txs) ==
  LET fresh == Unseen(s, txs)
  IN [subs[s] EXCEPT
        !.inflight = FALSE,
        !.polled = @ \cup txs,
        !.seen = @ \cup fresh,
        !.delivered = @ \cup fresh,
        !.late = IF subs[s].unsubCalls > 0 THEN @ \cup fresh ELSE @]

InitSubs ==
  /\ walletSeed \in MasterSeeds
  /\ callerParams = PathParams("bitcoin", <<"0">>)
  /\ other = callerParams
  /\ registry = EmptyRegistry
  /\ last = NoCall
  /\ again = NoCall
  /\ pairOut = NoPair
  /\ ExtIdle

SubsFrame ==
  UNCHANGED <<walletSeed, callerParams, registry, last, again, other, pairOut,
              instances, reach, laterVars>>

SubSubscribe ==
  /\ Len(subs) < MaxSubs
  /\ subs' = Append(subs, NewSubscription)
  /\ UNCHANGED chainTxs
  /\ SubsFrame

\* A transaction for the address reaches the chain.
SubTxArrives ==
  /\ Cardinality(chainTxs) < Len(TxIds)
  /\ chainTxs' = chainTxs \cup {TxIds[Cardinality(chainTxs) + 1]}
  /\ UNCHANGED subs
  /\ SubsFrame

\* The interval timer fires: the callback starts and awaits the request.
SubTick ==
  /\ \E s \in DOMAIN subs :
       /\ subs[s].interval = "running"
       /\ ~subs[s].inflight
       /\ subs' = [subs EXCEPT ![s].inflight = TRUE]
  /\ UNCHANGED chainTxs
  /\ SubsFrame

\* The response arrives and the callback runs to its end.
SubResponse ==
  /\ \E s \in DOMAIN subs :
       /\ subs[s].inflight
       /\ subs' = [subs EXCEPT ![s] = DeliverResponse(s, chainTxs)]
  /\ UNCHANGED chainTxs
  /\ SubsFrame

\* The request fails: the catch block logs and the callback ends.
SubResponseError ==
  /\ \E s \in DOMAIN subs :
       /\ subs[s].inflight
       /\ subs' = [subs EXCEPT ![s].inflight = FALSE]
  /\ UNCHANGED chainTxs
  /\ SubsFrame

\* handle.unsubscribe(): clearInterval(interval); a second call is allowed.
SubUnsubscribe ==
  /\ \E s \in DOMAIN subs :
       /\ subs[s].unsubCalls < 2
       /\ subs' = [subs EXCEPT ![s].interval = "cleared",
                               ![s].unsubCalls = @ + 1]
  /\ UNCHANGED chainTxs
  /\ SubsFrame

NextSubs ==
  \/ SubSubscribe
  \/ SubTxArrives
  \/ SubTick
  \/ SubResponse
  \/ SubResponseError
  \/ SubUnsubscribe

SpecSubs == InitSubs /\ [][NextSubs]_vars

\* C15: a second call of the unsubscribe handle does not throw, and once
\* unsubscribe has returned no onIncoming callback is delivered for that
\* subscription, whatever request was pending when it was called.
C15_NoCallbackAfterUnsubscribe ==
  \A s \in DOMAIN subs :
    subs[s].unsubCalls > 0
      => /\ subs[s].interval = "cleared"
         /\ subs[s].late = {}

\* C16: subscriptions live at the same time on one adapter do not interfere:
\* each delivers every transaction its own polls returned, whether or not
\* another subscription delivered it, keeps its own seen set, and is stopped
\* only by its own unsubscribe handle.
C16_IndependentSubscriptions ==
  \A s \in DOMAIN subs :
    /\ subs[s].delivered = subs[s].polled
    /\ subs[s].seen = subs[s].delivered
    /\ subs[s].interval = "cleared" <=> subs[s].unsubCalls > 0

C16_BothDeliveredOneStopped ==
  /\ Len(subs) = 2
  /\ "t1" \in subs[1].delivered /\ "t1" \in subs[2].delivered
  /\ subs[1].interval = "cleared" /\ subs[2].interval = "running"
  /\ "t2" \in subs[2].delivered /\ "t2" \notin subs[1].delivered

---------------------------------------------------------------------------
(* Adapter lifecycle (EvmAdapterV2 on BaseAdapter): constructed by the      *)
(* factory, registered and initialized by the registry, then used until     *)
(* shutdown.                                                                *)

MaxV2Subs == 2
MaxCallbacks == 2

Phases == <<"Constructed", "Registered", "Active", "Shutdown">>

PhaseRank(p) == IF p = "none" THEN 0 ELSE CHOOSE i \in 1..Len(Phases) : Phases[i] = p

V2Ops == {"deriveAddress", "balance", "send", "subscribe"}

AdapterShutdownError == <<"AdapterShutdownError">>
NetworkError == <<"could not detect network">>

\* new EvmAdapterV2(chain, config, seed): providers created, ws if configured.
EvmAdapterV2_new(hasWs) ==
  AdapterV2("Constructed", hasWs, {}, 0, 0, FALSE, "new", V2Result(TRUE, <<>>))

\* BaseAdapter.initialize(): the adapter accepts operations from here on.
BaseAdapter_initialize(a) == [a EXCEPT !.phase = "Active"]

\* BaseAdapter.shutdown(): every subscription is closed and the adapter
\* accepts no further operation.
BaseAdapter_shutdown(a) == [a EXCEPT !.phase = "Shutdown", !.open = {}]

\* await super.initialize(); await this.provider.getNetwork() (throws on failure).
EvmAdapterV2_initialize(a, networkOk) ==
  [BaseAdapter_initialize(a) EXCEPT
     !.op = "initialize",
     !.res = IF networkOk THEN V2Result(TRUE, <<>>) ELSE V2Result(FALSE, NetworkError)]

\* Variant of shutdown that closes the WebSocket provider and stops there.
EvmAdapterV2_shutdown_wsOnly(a) ==
  [a EXCEPT !.wsOpen = FALSE, !.shutdownCalled = TRUE, !.op = "shutdown",
            !.res = V2Result(TRUE, <<>>)]

\* wsProvider.removeAllListeners(); wsProvider.destroy(); super.shutdown().
EvmAdapterV2_shutdown(a) ==
  BaseAdapter_shutdown(
    [a EXCEPT !.wsOpen = FALSE, !.shutdownCalled = TRUE, !.op = "shutdown",
              !.res = V2Result(TRUE, <<>>)])

\* A public operation of BaseAdapter: refused once the adapter is shut down;
\* subscribe opens one more subscription.
BaseAdapter_call(a, op) ==
  IF a.phase = "Shutdown"
  THEN [a EXCEPT !.op = op, !.res = V2Result(FALSE, AdapterShutdownError)]
  ELSE [a EXCEPT !.op = op, !.res = V2Result(TRUE, <<>>),
                 !.open = IF op = "subscribe" THEN @ \cup {a.opened + 1} ELSE @,
                 !.opened = IF op = "subscribe" THEN @ + 1 ELSE @]

InitLifecycle ==
  /\ walletSeed \in MasterSeeds
  /\ callerParams = PathParams("ethereum", <<"0">>)
  /\ other = callerParams
  /\ registry = EmptyRegistry
  /\ last = NoCall
  /\ again = NoCall
  /\ pairOut = NoPair
  /\ ExtIdle

LifecycleFrame ==
  UNCHANGED <<walletSeed, callerParams, registry, last, again, other, pairOut,
              instances, reach, subs, chainTxs, rpcVars, keypairs, evmSend,
              finalVars>>

\* createEvmAdapter(chain, config, seed).
V2Construct ==
  /\ adapterV2.phase = "none"
  /\ \E hasWs \in BOOLEAN : adapterV2' = EvmAdapterV2_new(hasWs)
  /\ LifecycleFrame

\* The registry takes the constructed adapter.
V2Register ==
  /\ adapterV2.phase = "Constructed"
  /\ adapterV2' = [adapterV2 EXCEPT !.phase = "Registered", !.op = "register"]
  /\ LifecycleFrame

\* The registry initializes the adapter it loads.
V2Initialize ==
  /\ adapterV2.phase = "Registered"
  /\ \E networkOk \in BOOLEAN :
       adapterV2' = EvmAdapterV2_initialize(adapterV2, networkOk)
  /\ LifecycleFrame

\* deriveAddress, balance, send or subscribe on a loaded adapter.
V2Call ==
  /\ adapterV2.phase \in {"Active", "Shutdown"}
  /\ \E op \in V2Ops :
       /\ op = "subscribe" => adapterV2.opened < MaxV2Subs
       /\ adapterV2' = BaseAdapter_call(adapterV2, op)
  /\ LifecycleFrame

\* An open subscription hands an incoming transaction to its callback.
V2Callback ==
  /\ adapterV2.open # {}
  /\ adapterV2.callbacks < MaxCallbacks
  /\ adapterV2' = [adapterV2 EXCEPT !.callbacks = @ + 1]
  /\ LifecycleFrame

\* The handle of an open subscription is used.
V2Unsubscribe ==
  /\ \E s \in adapterV2.open :
       adapterV2' = [adapterV2 EXCEPT !.open = @ \ {s}, !.op = "unsubscribe"]
  /\ LifecycleFrame

\* adapter.shutdown().
V2Shutdown ==
  /\ adapterV2.phase \in {"Registered", "Active"}
  /\ adapterV2' = EvmAdapterV2_shutdown(adapterV2)
  /\ LifecycleFrame

NextLifecycle ==
  \/ V2Construct
  \/ V2Register
  \/ V2Initialize
  \/ V2Call
  \/ V2Callback
  \/ V2Unsubscribe
  \/ V2Shutdown

SpecLifecycle == InitLifecycle /\ [][NextLifecycle]_vars

---------------------------------------------------------------------------
(* RPC endpoint overrides (constants/config.ts) and the order in which the  *)
(* WalletSDK constructor installs them and builds the adapters.             *)

MaxOverrideCalls == 3
MaxOptionEntries == 2

\* An optional field that is absent, and the empty string.
Missing == <<>>
EmptyString == <<"">>

Endpoints(http, ws, explorerApi) ==
  [http |-> http, ws |-> ws, explorerApi |-> explorerApi]

\* Chains whose default entry has a ws field.
WsChains == EvmChainSet \cup {"solana"}

DEFAULT_RPC_URLS(chain) ==
  IF chain \in SupportedChainSet
  THEN Endpoints(<<"default-http", chain>>,
                 IF chain \in WsChains THEN <<"default-ws", chain>> ELSE Missing,
                 <<"default-api", chain>>)
  ELSE Undefined

\* Endpoint records a caller passes as overrides.
OverrideValues ==
  {Endpoints(<<"http-1">>, Missing, Missing),
   Endpoints(<<"http-2">>, <<"ws-2">>, <<"api-2">>)}

\* Chains a caller overrides: adapters' chains and one without defaults.
OverrideChains == {"ethereum", "bitcoin", "dogecoin"}

\* Variant of setRpcOverride that keeps an override the chain already has.
setRpcOverride_keepsFirst(ov, chain, endpoints) ==
  IF ov[chain] = Undefined THEN [ov EXCEPT ![chain] = endpoints] ELSE ov

\* overrides[chain] = endpoints;
setRpcOverride(ov, chain, endpoints) == [ov EXCEPT ![chain] = endpoints]

\* return overrides[chain] || DEFAULT_RPC_URLS[chain];
getRpcEndpoints(ov, chain) ==
  IF ov[chain] # Undefined THEN ov[chain] ELSE DEFAULT_RPC_URLS(chain)

\* EvmAdapter constructor: config.rpcUrl || eps.http, config.wsUrl || eps.ws || "".
EvmAdapter_uses(eps) ==
  [http |-> eps.http, ws |-> IF eps.ws = Missing THEN EmptyString ELSE eps.ws]

\* BitcoinAdapter constructor: eps.explorerApi ?? "".
BitcoinAdapter_uses(eps) ==
  [explorerApi |-> IF eps.explorerApi = Missing THEN EmptyString ELSE eps.explorerApi]

\* SolanaAdapter constructor: new Connection(http, "confirmed").
SolanaAdapter_uses(eps) == [http |-> eps.http]

\* Chains registerAllAdapters constructs an adapter for.
SdkChains == EvmChainSet \cup {"bitcoin", "solana"}

AdapterUses(chain, eps) ==
  IF chain = "bitcoin" THEN BitcoinAdapter_uses(eps)
  ELSE IF chain = "solana" THEN SolanaAdapter_uses(eps)
  ELSE EvmAdapter_uses(eps)

\* registerAllAdapters(seed): every adapter reads its endpoints when it is
\* constructed.
RegisterAllAdapters_endpoints(ov, before) ==
  [c \in RpcChainSet |->
     IF c \in SdkChains THEN AdapterUses(c, getRpcEndpoints(ov, c)) ELSE before[c]]

\* Object.entries(options.rpcEndpoints).forEach(([chain, eps]) => setRpcOverride(chain, eps))
RECURSIVE InstallOverrides(_, _)
InstallOverrides(ov, entries) ==
  IF entries = <<>> THEN ov
  ELSE InstallOverrides(setRpcOverride(ov, Head(entries)[1], Head(entries)[2]),
                        Tail(entries))

\* Variant of the constructor that builds the adapters first.
WalletSDK_new_adaptersFirst(ov, before, entries) ==
  [overrides |-> InstallOverrides(ov, entries),
   built |-> RegisterAllAdapters_endpoints(ov, before)]

\* new WalletSDK({seed, rpcEndpoints}): overrides, then registerAllAdapters.
WalletSDK_new(ov, before, entries) ==
  LET installed == InstallOverrides(ov, entries)
  IN [overrides |-> installed,
      built |-> RegisterAllAdapters_endpoints(installed, before)]

\* options.rpcEndpoints: entries in insertion order, one per chain.
SdkOptions ==
  {o \in UNION {[1..n -> OverrideChains \X OverrideValues] : n \in 0..MaxOptionEntries} :
     \A i, j \in DOMAIN o : o[i][1] = o[j][1] => i = j}

InitRpc ==
  /\ walletSeed \in MasterSeeds
  /\ callerParams = PathParams("ethereum", <<"0">>)
  /\ other = callerParams
  /\ registry = EmptyRegistry
  /\ last = NoCall
  /\ again = NoCall
  /\ pairOut = NoPair
  /\ ExtIdle

RpcFrame ==
  UNCHANGED <<walletSeed, callerParams, registry, last, again, other, pairOut,
              instances, reach, subs, chainTxs, adapterV2, keypairs, evmSend,
              finalVars>>

\* setRpcOverride(chain, endpoints) called directly.
RpcSetOverride ==
  /\ Len(overrideLog) < MaxOverrideCalls
  /\ \E chain \in OverrideChains, endpoints \in OverrideValues :
       /\ overrides' = setRpcOverride(overrides, chain, endpoints)
       /\ overrideLog' = Append(overrideLog, <<chain, endpoints>>)
  /\ UNCHANGED <<built, sdkOptions>>
  /\ RpcFrame

RpcNewWalletSDK ==
  /\ \E entries \in SdkOptions :
       /\ Len(overrideLog) + Len(entries) <= MaxOverrideCalls
       /\ LET sdk == WalletSDK_new(overrides, built, entries)
          IN /\ overrides' = sdk.overrides
             /\ built' = sdk.built
       /\ overrideLog' = overrideLog \o entries
       /\ sdkOptions' = entries
  /\ RpcFrame

NextRpc ==
  \/ RpcSetOverride
  \/ RpcNewWalletSDK

SpecRpc == InitRpc /\ [][NextRpc]_vars

\* The value of the last setRpcOverride call made for the chain, or the
\* chain's default when no call was made for it.
LatestOverride(chain) ==
  LET calls == {i \in DOMAIN overrideLog : overrideLog[i][1] = chain}
  IN IF calls = {} THEN DEFAULT_RPC_URLS(chain)
     ELSE overrideLog[CHOOSE i \in calls : \A j \in calls : j <= i][2]

\* C17: after any sequence of setRpcOverride calls, getRpcEndpoints(c)
\* returns the override set last for c, or the default of c when c was never
\* overridden; an override for one chain changes no other chain's endpoints.
C17_LatestOverrideWins ==
  \A c \in RpcChainSet : getRpcEndpoints(overrides, c) = LatestOverride(c)

C17_OverriddenTwice ==
  /\ \E i, j \in DOMAIN overrideLog :
       /\ i < j
       /\ overrideLog[i][1] = "ethereum" /\ overrideLog[j][1] = "ethereum"
       /\ overrideLog[i][2] # overrideLog[j][2]
  /\ \E i \in DOMAIN overrideLog : overrideLog[i][1] = "bitcoin"
  /\ overrides["solana"] = Undefined

\* C18: the WalletSDK constructor installs every override of its
\* rpcEndpoints option before it constructs an adapter, so the adapter of
\* each overridden chain is built with the overriding endpoints.
C18_AdaptersBuiltWithOverrides ==
  \A i \in DOMAIN sdkOptions :
    sdkOptions[i][1] \in SdkChains
      => built[sdkOptions[i][1]] = AdapterUses(sdkOptions[i][1], sdkOptions[i][2])

C18_OverrideReplacedAtConstruction ==
  /\ Len(overrideLog) > Len(sdkOptions)
  /\ \E i \in DOMAIN sdkOptions :
       /\ sdkOptions[i][1] = "bitcoin"
       /\ overrideLog[1][1] = "bitcoin"
       /\ overrideLog[1][2] # sdkOptions[i][2]
       /\ built["bitcoin"] = BitcoinAdapter_uses(sdkOptions[i][2])
  /\ built["ethereum"].http = <<"default-http", "ethereum">>

---------------------------------------------------------------------------
(* Ed25519 keypair generation (utils/keypair.ts, both versions). Byte       *)
(* strings and character strings carry their length and what they encode.   *)

MaxKeypairCalls == 3

KeyBytes == 32
HexKeyLength == 64

\* Outcomes of utils.randomPrivateKey().
RandomKeys == {"k1", "k2", "k3", "k4"}

KBytes(len, of) == [kind |-> "bytes", len |-> len, of |-> of]
KString(len, of) == [kind |-> "string", len |-> len, of |-> of]

NoKeyString == KString(0, <<"none">>)

utils_randomPrivateKey(k) == KBytes(KeyBytes, <<"random", k>>)

\* etc.bytesToHex / Buffer.toString('hex'): two hex characters per byte.
etc_bytesToHex(b) == KString(2 * b.len, <<"hex", b>>)

\* Buffer.from(str): the UTF-8 bytes of the string, one per hex character.
Buffer_from(str) == KBytes(str.len, <<"utf8", str>>)

\* Hex string to bytes: one byte per two characters.
hexToBytes(str) ==
  IF str.of[1] = "hex" THEN str.of[2] ELSE KBytes(str.len \div 2, <<"unhex", str>>)

KeypairResult(ok, privateKey, publicKey, err) ==
  [ok |-> ok, privateKey |-> privateKey, publicKey |-> publicKey, err |-> err]

\* getPublicKeyAsync(priv): priv as bytes must be 32 bytes long.
getPublicKeyAsync(priv) ==
  LET bytes == IF priv.kind = "string" THEN hexToBytes(priv) ELSE priv
  IN IF bytes.len # KeyBytes
     THEN [ok |-> FALSE, key |-> KBytes(0, <<"none">>)]
     ELSE [ok |-> TRUE, key |-> KBytes(KeyBytes, <<"public", bytes>>)]

\* The version that hex-encodes the hex string once more through Buffer and
\* hands that string to getPublicKeyAsync.
generateEd25519Keypair_buffered(k) ==
  LET privateKeyUint8 == utils_randomPrivateKey(k)
      hexKey1 == etc_bytesToHex(privateKeyUint8)
      privateKey == etc_bytesToHex(Buffer_from(hexKey1))
      pub == getPublicKeyAsync(privateKey)
  IN IF ~pub.ok
     THEN KeypairResult(FALSE, NoKeyString, NoKeyString, <<"Uint8Array expected">>)
     ELSE KeypairResult(TRUE, privateKey,
                        etc_bytesToHex(Buffer_from(etc_bytesToHex(pub.key))), <<>>)

\* The version that returns bytesToHex of the private and of the public key.
generateEd25519Keypair(k) ==
  LET privateKeyUint8 == utils_randomPrivateKey(k)
      pub == getPublicKeyAsync(privateKeyUint8)
  IN IF ~pub.ok
     THEN KeypairResult(FALSE, NoKeyString, NoKeyString, <<"Uint8Array expected">>)
     ELSE KeypairResult(TRUE, etc_bytesToHex(privateKeyUint8),
                        etc_bytesToHex(pub.key), <<>>)

InitKeypair ==
  /\ walletSeed \in MasterSeeds
  /\ callerParams = PathParams("solana", <<"0">>)
  /\ other = callerParams
  /\ registry = EmptyRegistry
  /\ last = NoCall
  /\ again = NoCall
  /\ pairOut = NoPair
  /\ ExtIdle

KeypairFrame ==
  UNCHANGED <<walletSeed, callerParams, registry, last, again, other, pairOut,
              instances, reach, subs, chainTxs, adapterV2, rpcVars, evmSend,
              finalVars>>

KeypairGenerate ==
  /\ Len(keypairs) < MaxKeypairCalls
  /\ \E k \in RandomKeys : keypairs' = Append(keypairs, generateEd25519Keypair(k))
  /\ KeypairFrame

KeypairGenerateBuffered ==
  /\ Len(keypairs) < MaxKeypairCalls
  /\ \E k \in RandomKeys :
       keypairs' = Append(keypairs, generateEd25519Keypair_buffered(k))
  /\ KeypairFrame

NextKeypair ==
  \/ KeypairGenerate
  \/ KeypairGenerateBuffered

SpecKeypair == InitKeypair /\ [][NextKeypair]_vars

\* C19: generateEd25519Keypair returns a private key and a public key, each
\* a hex string of exactly 64 characters (32 bytes).
C19_KeysAre64HexChars ==
  \A i \in DOMAIN keypairs :
    /\ keypairs[i].ok
    /\ keypairs[i].privateKey.len = HexKeyLength
    /\ keypairs[i].publicKey.len = HexKeyLength

---------------------------------------------------------------------------
(* EVM send (EvmAdapterV2.sendTransaction): recipient validation, then the  *)
(* nonce request, signing and broadcast.                                    *)

AddressHexLength == 40

\* Recipient strings: with or without the 0x prefix, empty, one character
\* short or full length, all hex or with another character, in lower case,
\* in upper case, in mixed case with a correct checksum, or in mixed case
\* without one.
Recipients ==
  {to \in {Recipient(prefix, len, allHex, case) :
             prefix \in {"0x", ""},
             len \in {0, AddressHexLength - 1, AddressHexLength},
             allHex \in BOOLEAN,
             case \in {"lower", "upper", "checksum", "mixed"}} :
     to.len = 0 => (to.allHex /\ to.case = "lower")}

\* The claim's malformed recipients: too short, no 0x prefix, a character
\* that is no hex digit, '0x' alone, or the empty string.
Malformed(to) ==
  \/ to.prefix # "0x"
  \/ to.len # AddressHexLength
  \/ ~to.allHex

\* ethers.utils.isAddress: /^(0x)?[0-9a-fA-F]{40}$/, and a mixed-case
\* address must carry its checksum.
isAddress(to) ==
  /\ to.prefix \in {"0x", ""}
  /\ to.len = AddressHexLength
  /\ to.allHex
  /\ to.case # "mixed"

\* if (!ethers.utils.isAddress(address)) throw new Error(`Invalid EVM address format: ...`)
validateEvmAddress(to) ==
  IF isAddress(to) THEN <<>> ELSE <<"Invalid EVM address format: ", to>>

\* sendTransaction up to its first await: validateEvmAddress(to), new Wallet.
EvmAdapterV2_sendTransaction(to) ==
  IF validateEvmAddress(to) # <<>>
  THEN EvmSend(to, "rejected", FALSE, FALSE, FALSE, validateEvmAddress(to))
  ELSE EvmSend(to, "validated", FALSE, FALSE, FALSE, <<>>)

InitEvmSend ==
  /\ walletSeed \in MasterSeeds
  /\ callerParams = PathParams("ethereum", <<"0">>)
  /\ other = callerParams
  /\ registry = EmptyRegistry
  /\ last = NoCall
  /\ again = NoCall
  /\ pairOut = NoPair
  /\ ExtIdle

EvmSendFrame ==
  UNCHANGED <<walletSeed, callerParams, registry, last, again, other, pairOut,
              instances, reach, subs, chainTxs, adapterV2, rpcVars, keypairs,
              finalVars>>

\* adapter.send(params, to, amount) reaches sendTransaction with the recipient.
EvmSendStart ==
  /\ evmSend.step \in {"idle", "rejected", "sent"}
  /\ \E to \in Recipients : evmSend' = EvmAdapterV2_sendTransaction(to)
  /\ EvmSendFrame

\* Promise.all([getOptimalGasPrice(), provider.getTransactionCount(from, 'pending')]).
EvmSendFetchNonce ==
  /\ evmSend.step = "validated"
  /\ \E ok \in BOOLEAN :
       evmSend' = [evmSend EXCEPT
                     !.nonceFetched = TRUE,
                     !.step = IF ok THEN "nonce" ELSE "rejected",
                     !.err = IF ok THEN <<>> ELSE <<"network error">>]
  /\ EvmSendFrame

\* wallet.sendTransaction(txRequest): the transaction is signed ...
EvmSendSign ==
  /\ evmSend.step = "nonce"
  /\ evmSend' = [evmSend EXCEPT !.signed = TRUE, !.step = "signed"]
  /\ EvmSendFrame

\* ... and sent to the node, which accepts or refuses it.
EvmSendBroadcast ==
  /\ evmSend.step = "signed"
  /\ \E ok \in BOOLEAN :
       evmSend' = [evmSend EXCEPT
                     !.broadcast = TRUE,
                     !.step = IF ok THEN "sent" ELSE "rejected",
                     !.err = IF ok THEN <<>> ELSE <<"network error">>]
  /\ EvmSendFrame

NextEvmSend ==
  \/ EvmSendStart
  \/ EvmSendFetchNonce
  \/ EvmSendSign
  \/ EvmSendBroadcast

SpecEvmSend == InitEvmSend /\ [][NextEvmSend]_vars

\* C20: an EVM send whose recipient is malformed (too short, missing the 0x
\* prefix, containing a non-hex character, '0x' alone, or empty) is rejected
\* with an error, and for it no nonce is fetched and nothing is signed or
\* broadcast.
C20_MalformedRecipientRejected ==
  (evmSend.step # "idle" /\ Malformed(evmSend.to))
    => /\ evmSend.step = "rejected"
       /\ ~evmSend.nonceFetched
       /\ ~evmSend.signed
       /\ ~evmSend.broadcast

---------------------------------------------------------------------------
(* Nonce selection of EvmAdapterV2.sendTransaction when several sends from  *)
(* one derived address are under way.                                       *)

MaxSends == 3

SendCall(step, hasNonce, nonce, hash, after) ==
  [step |-> step, hasNonce |-> hasNonce, nonce |-> nonce, hash |-> hash,
   after |-> after]

\* Hash of the signed transaction: the calls send the same value to the same
\* recipient, so the signed bytes differ only in the nonce.
TxHash(nonce) == <<"tx", nonce>>

\* provider.getTransactionCount(from, 'pending'); no config.nonce is passed.
SelectNonce(st, call) == [call EXCEPT !.hasNonce = TRUE, !.nonce = st.pending, !.step = "nonce"]

\* wallet.sendTransaction(txRequest): the node takes the transaction when its
\* nonce is the next one of the account and refuses it otherwise.
NodeAccepts(st, call) == call.nonce = st.pending

InitNonce ==
  /\ walletSeed \in MasterSeeds
  /\ callerParams = PathParams("ethereum", <<"0">>)
  /\ other = callerParams
  /\ registry = EmptyRegistry
  /\ last = NoCall
  /\ again = NoCall
  /\ pairOut = NoPair
  /\ ExtIdle

NonceFrame ==
  UNCHANGED <<earlierVars, facadeSt, btcOut, validateSt, incomingSt, pollSt, balSub, btcSend>>

\* adapter.send(params, to, amount) is called; the calls that have ended by
\* now are remembered.
NonceSendStart ==
  /\ Len(nonceSt.calls) < MaxSends
  /\ nonceSt' = [nonceSt EXCEPT !.calls =
       Append(@, SendCall("started", FALSE, 0, <<>>,
                          {i \in DOMAIN nonceSt.calls :
                             nonceSt.calls[i].step \in {"returned", "failed"}}))]
  /\ NonceFrame

\* The nonce request of a call is answered.
NonceSendFetch ==
  /\ \E i \in DOMAIN nonceSt.calls :
       /\ nonceSt.calls[i].step = "started"
       /\ nonceSt' = [nonceSt EXCEPT !.calls[i] = SelectNonce(nonceSt, @)]
  /\ NonceFrame

\* The signed transaction of a call reaches the node.
NonceSendBroadcast ==
  /\ \E i \in DOMAIN nonceSt.calls :
       /\ nonceSt.calls[i].step = "nonce"
       /\ IF NodeAccepts(nonceSt, nonceSt.calls[i])
          THEN nonceSt' = [nonceSt EXCEPT
                             !.pending = @ + 1,
                             !.calls[i].step = "returned",
                             !.calls[i].hash = TxHash(nonceSt.calls[i].nonce)]
          ELSE nonceSt' = [nonceSt EXCEPT !.calls[i].step = "failed"]
  /\ NonceFrame

NextNonce ==
  \/ NonceSendStart
  \/ NonceSendFetch
  \/ NonceSendBroadcast

SpecNonce == InitNonce /\ [][NextNonce]_vars

\* C21: any two sends from the same derived address, one after the other or
\* overlapping, are given different nonces, and when both return they return
\* different transaction hashes.
C21_DistinctNonces ==
  \A i, j \in DOMAIN nonceSt.calls :
    (i # j /\ nonceSt.calls[i].hasNonce /\ nonceSt.calls[j].hasNonce)
      => /\ nonceSt.calls[i].nonce # nonceSt.calls[j].nonce
         /\ (nonceSt.calls[i].step = "returned" /\ nonceSt.calls[j].step = "returned")
              => nonceSt.calls[i].hash # nonceSt.calls[j].hash

---------------------------------------------------------------------------
(* Errors of the adapter seen through HDWallet.send and HDWallet.subscribe. *)

\* Errors an adapter's send or subscribe raises.
AdapterErrors == {<<"network error">>, <<"insufficient funds">>, <<"timeout">>}

\* Chains a caller names: the supported ones, with and without an adapter.
FacadeChains == SupportedChainSet

\* Variant of the facade that reports its own error for any adapter error.
HDWallet_return_wrapped(outcome) ==
  IF outcome.ok THEN outcome ELSE V2Result(FALSE, <<"operation failed">>)

\* return adapter.send(...) / return adapter.subscribe(...): the adapter's
\* promise is the facade's result.
HDWallet_return(outcome) == outcome

\* What the facade does before the adapter is invoked: subscribe derives the
\* address, both look the adapter up.
FacadeBefore(op, seed, reg, p) ==
  LET a == HDWallet_deriveAddress(seed, p)
  IN IF op = "subscribe" /\ ~a.ok THEN V2Result(FALSE, a.err)
     ELSE IF ChainManagerGetAdapter(reg, p.chain) = NoAdapter
          THEN V2Result(FALSE, <<"adapter not registered: ", p.chain>>)
          ELSE V2Result(TRUE, <<>>)

InitFacade ==
  /\ walletSeed \in MasterSeeds
  /\ callerParams \in {PathParams(c, <<"0">>) : c \in FacadeChains}
  /\ other = callerParams
  /\ registry = RegisterBitcoinAdapter(RegisterEvmAdapters(EmptyRegistry, walletSeed), walletSeed)
  /\ last = NoCall
  /\ again = NoCall
  /\ pairOut = NoPair
  /\ ExtIdle

FacadeFrame ==
  UNCHANGED <<earlierVars, nonceSt, btcOut, validateSt, incomingSt, pollSt, balSub, btcSend>>

\* wallet.send(params, to, amount) or wallet.subscribe(params, onIncoming).
FacadeCall ==
  /\ facadeSt.step \in {"idle", "done"}
  /\ \E op \in {"send", "subscribe"} :
       LET before == FacadeBefore(op, walletSeed, registry, callerParams)
       IN facadeSt' = IF before.ok
                      THEN FacadeState(op, "inAdapter", 1, <<>>, before)
                      ELSE FacadeState(op, "done", 0, <<>>, before)
  /\ FacadeFrame

\* The adapter's operation rejects.
FacadeAdapterRaises ==
  /\ facadeSt.step = "inAdapter"
  /\ \E e \in AdapterErrors :
       facadeSt' = [facadeSt EXCEPT !.step = "done", !.raised = e,
                                    !.res = HDWallet_return(V2Result(FALSE, e))]
  /\ FacadeFrame

\* The adapter's operation resolves.
FacadeAdapterReturns ==
  /\ facadeSt.step = "inAdapter"
  /\ facadeSt' = [facadeSt EXCEPT !.step = "done",
                                  !.res = HDWallet_return(V2Result(TRUE, <<>>))]
  /\ FacadeFrame

NextFacade ==
  \/ FacadeCall
  \/ FacadeAdapterRaises
  \/ FacadeAdapterReturns

SpecFacade == InitFacade /\ [][NextFacade]_vars

\* C22: an error raised by the adapter's send or subscribe during
\* HDWallet.send or HDWallet.subscribe reaches the caller as that same error,
\* and the adapter operation was invoked once: the facade neither swallows
\* nor replaces the error nor retries.
C22_AdapterErrorPropagates ==
  /\ facadeSt.attempts <= 1
  /\ facadeSt.raised # <<>>
       => /\ facadeSt.step = "done"
          /\ facadeSt.res = V2Result(FALSE, facadeSt.raised)

C22_NetworkErrorFromSubscribe ==
  /\ facadeSt.op = "subscribe"
  /\ facadeSt.step = "done"
  /\ facadeSt.raised = <<"network error">>
  /\ facadeSt.attempts = 1

---------------------------------------------------------------------------
(* The Bitcoin derivations: deriveForChain, BitcoinAdapter.derivePrivateKey *)
(* and BitcoinAdapter.deriveAddress.                                        *)

BtcResult(priv, address) == [done |-> TRUE, priv |-> priv, address |-> address]

\* toXOnly(pubkey): the 32 bytes after the parity byte.
ToXOnly(pubkey) == SliceFrom(pubkey, 1)

\* payments.p2tr({internalPubkey, network: bitcoin}).address: bech32m of the
\* tweaked key, "bc1p" and 58 characters.
P2trAddress(internalPubkey) ==
  Addr("bc1p", "bech32m", 58, 58, << Chunk("taproot-output", internalPubkey, 32) >>)

\* BitcoinAdapter.derivePrivateKey: the first 32 bytes of the entropy are the
\* private key, its Taproot address the address.
BitcoinAdapter_derivePrivateKey(seed, params) ==
  LET entropy == DeriveEntropy(seed, params)
      priv == SliceTo(entropy, 32)
  IN BtcResult(priv, P2trAddress(ToXOnly(GetSecp256k1Pub(priv, TRUE))))

\* BitcoinAdapter.deriveAddress: the Taproot address of deriveForChain's key.
BitcoinAdapter_deriveAddress(seed, params) ==
  LET priv == DeriveForChain(seed, params).priv
  IN BtcResult(NoBytes, P2trAddress(ToXOnly(GetSecp256k1Pub(priv, TRUE))))

InitBtc ==
  /\ walletSeed \in MasterSeeds
  /\ callerParams \in {p \in ParamsDomain : p.chain \in BtcCases}
  /\ other = callerParams
  /\ registry = EmptyRegistry
  /\ last = NoCall
  /\ again = NoCall
  /\ pairOut = NoPair
  /\ ExtIdle

BtcFrame ==
  UNCHANGED <<earlierVars, nonceSt, facadeSt, validateSt, incomingSt, pollSt, balSub, btcSend>>

BtcDeriveForChain ==
  /\ LET r == DeriveForChain(walletSeed, callerParams)
     IN btcOut' = [btcOut EXCEPT !.deriveForChain = BtcResult(r.priv, r.address)]
  /\ BtcFrame

BtcAdapterDerivePrivateKey ==
  /\ btcOut' = [btcOut EXCEPT !.derivePrivateKey =
                  BitcoinAdapter_derivePrivateKey(walletSeed, callerParams)]
  /\ BtcFrame

BtcAdapterDeriveAddress ==
  /\ btcOut' = [btcOut EXCEPT !.deriveAddress =
                  BitcoinAdapter_deriveAddress(walletSeed, callerParams)]
  /\ BtcFrame

NextBtc ==
  \/ BtcDeriveForChain
  \/ BtcAdapterDerivePrivateKey
  \/ BtcAdapterDeriveAddress

SpecBtc == InitBtc /\ [][NextBtc]_vars

\* C23: for bitcoin the private key is the child m/0' of the HD master seed
\* made of the full 64-byte entropy; deriveForChain and
\* BitcoinAdapter.derivePrivateKey return that key, and every address
\* returned is an address of that key.
C23_SameBitcoinKey ==
  LET child == HDKeyDerive(DeriveEntropy(walletSeed, callerParams), "m/0'")
      taproot == P2trAddress(ToXOnly(child.publicKey))
  IN /\ btcOut.deriveForChain.done
          => /\ btcOut.deriveForChain.priv = child.privateKey
             /\ btcOut.deriveForChain.address = HexOf(child.publicKey)
     /\ btcOut.derivePrivateKey.done
          => /\ btcOut.derivePrivateKey.priv = child.privateKey
             /\ btcOut.derivePrivateKey.address = taproot
     /\ btcOut.deriveAddress.done
          => btcOut.deriveAddress.address = taproot

---------------------------------------------------------------------------
(* validateDeriveParams and isValidChain (types/index.ts), and whether the  *)
(* params they accept can be derived for.                                   *)

\* The list in isValidChain.
ValidChains ==
  {"ethereum", "bsc", "polygon", "avalanche", "arbitrum", "optimism", "fantom",
   "cronos", "sonic", "base", "bitcoin", "solana", "polkadot", "cardano",
   "aptos", "sui", "tron", "ton", "near", "eos"}

\* !v: undefined, null, the empty string and 0 are falsy.
Falsy(v) ==
  \/ v.t \in {"undefined", "null"}
  \/ v.t = "string" /\ v.v = <<>>
  \/ v.t = "number" /\ v.v = <<"0">>

\* chains.includes(chain)
isValidChain(chain) ==
  chain.t = "string" /\ chain.v # <<>> /\ chain.v[1] \in ValidChains

InvalidParams(what) == V2Result(FALSE, <<"Invalid derive params: ", what>>)

validateDeriveParams(params) ==
  IF Falsy(params) \/ params.t # "object"
  THEN InvalidParams("must be an object")
  ELSE IF Falsy(params.scope) \/ params.scope.t # "string"
  THEN InvalidParams("scope must be a string")
  ELSE IF Falsy(params.userId) \/ params.userId.t # "string"
  THEN InvalidParams("userId must be a string")
  ELSE IF Falsy(params.chain) \/ ~isValidChain(params.chain)
  THEN InvalidParams("chain must be one of the supported chains")
  ELSE IF Falsy(params.index) \/ params.index.t # "string"
  THEN InvalidParams("index must be a string")
  ELSE V2Result(TRUE, <<>>)

\* Values of scope, userId and index.
FieldValues ==
  {JsString(<<>>), JsString(<<"a">>), JsString(<<"0">>), JsNumber(<<"1">>),
   JsNumber(<<"0">>), JsUndefined}

\* Values of chain: a chain name is a one-element character sequence here.
ChainValues ==
  {JsString(<<c>>) : c \in ValidChains \cup Chains}
    \cup {JsString(<<>>), JsNumber(<<"1">>), JsUndefined, JsNull}

ValidateInputs ==
  {JsNull, JsUndefined, JsString(<<"a">>), JsNumber(<<"1">>)}
    \cup {JsObject(s, u, c, i) :
            s \in FieldValues, u \in FieldValues, c \in ChainValues, i \in FieldValues}

\* The claim's condition: an object whose scope, userId and index are
\* non-empty strings and whose chain is a recognized chain identifier.
WellFormedParams(params) ==
  /\ params.t = "object"
  /\ \A f \in {params.scope, params.userId, params.index} :
       f.t = "string" /\ f.v # <<>>
  /\ params.chain.t = "string" /\ params.chain.v # <<>>
  /\ params.chain.v[1] \in ValidChains

\* The DeriveParams an accepted object is.
AsDeriveParams(params) ==
  MkParams(params.scope.v, params.userId.v, params.chain.v[1], params.index.v)

InitValidate ==
  /\ walletSeed \in MasterSeeds
  /\ callerParams = PathParams("ethereum", <<"0">>)
  /\ other = callerParams
  /\ registry = EmptyRegistry
  /\ last = NoCall
  /\ again = NoCall
  /\ pairOut = NoPair
  /\ ExtIdle

ValidateFrame ==
  UNCHANGED <<earlierVars, nonceSt, facadeSt, btcOut, incomingSt, pollSt, balSub, btcSend>>

\* validateDeriveParams(params)
ValidateCall ==
  /\ validateSt.step = "idle"
  /\ \E params \in ValidateInputs :
       validateSt' = ValidateState(params, "validated", validateDeriveParams(params),
                                   V2Result(TRUE, <<>>))
  /\ ValidateFrame

\* deriveForChain(masterSeed, params) on params that passed.
ValidateThenDerive ==
  /\ validateSt.step = "validated"
  /\ validateSt.res.ok
  /\ LET r == DeriveForChain(walletSeed, AsDeriveParams(validateSt.in))
     IN validateSt' = [validateSt EXCEPT !.step = "derived",
                                         !.derived = V2Result(r.ok, r.err)]
  /\ ValidateFrame

NextValidate ==
  \/ ValidateCall
  \/ ValidateThenDerive

SpecValidate == InitValidate /\ [][NextValidate]_vars

\* C24: validateDeriveParams returns normally exactly when its argument is
\* an object whose scope, userId and index are non-empty strings and whose
\* chain is a recognized chain identifier, throws an invalid-derive-params
\* error otherwise, and every chain it accepts is one deriveForChain derives
\* for.
C24_ValidatedParamsDerivable ==
  validateSt.step # "idle"
    => /\ validateSt.res.ok <=> WellFormedParams(validateSt.in)
       /\ ~validateSt.res.ok => validateSt.res.err[1] = "Invalid derive params: "
       /\ validateSt.step = "derived" => validateSt.derived.ok

---------------------------------------------------------------------------
(* Which transactions a subscription reports: the address endpoint polled   *)
(* by BitcoinAdapter.subscribe, the signatures polled by                    *)
(* SolanaAdapter.subscribe, and the block scan of                           *)
(* EvmAdapterV2.getIncomingTransactions.                                    *)

MaxChainTxs == 2

\* A transaction by sender, recipient and whether it moves value; "addr" is
\* the subscribed address.
Tx(from, to, hasValue) == [from |-> from, to |-> to, hasValue |-> hasValue]

TxUniverse ==
  {Tx(from, to, hasValue) :
     from \in {"addr", "other"}, to \in {"addr", "other"}, hasValue \in BOOLEAN}

\* GET /address/:address/txs and getSignaturesForAddress(addr): every
\* transaction the address takes part in, as sender or as recipient.
AddressTxs(txs) == {tx \in txs : tx.from = "addr" \/ tx.to = "addr"}

\* BitcoinAdapter.subscribe / SolanaAdapter.subscribe: every listed
\* transaction not seen before goes to onIncoming.
PollingReports(txs) == AddressTxs(txs)

\* getIncomingTransactions: tx.to === address && tx.value.gt(0).
EvmReports(txs) == {tx \in txs : tx.to = "addr" /\ tx.hasValue}

InitIncoming ==
  /\ walletSeed \in MasterSeeds
  /\ callerParams = PathParams("bitcoin", <<"0">>)
  /\ other = callerParams
  /\ registry = EmptyRegistry
  /\ last = NoCall
  /\ again = NoCall
  /\ pairOut = NoPair
  /\ ExtIdle

IncomingFrame ==
  UNCHANGED <<earlierVars, nonceSt, facadeSt, btcOut, validateSt, pollSt, balSub, btcSend>>

\* A transaction is mined.
IncomingTxMined ==
  /\ Cardinality(incomingSt.txs) < MaxChainTxs
  /\ \E tx \in TxUniverse \ incomingSt.txs :
       incomingSt' = [incomingSt EXCEPT !.txs = @ \cup {tx}]
  /\ IncomingFrame

\* A poll of the Bitcoin subscription completes.
IncomingPollBitcoin ==
  /\ incomingSt' = [incomingSt EXCEPT
                      !.delivered["bitcoin"] = @ \cup PollingReports(incomingSt.txs)]
  /\ IncomingFrame

\* A poll of the Solana subscription completes.
IncomingPollSolana ==
  /\ incomingSt' = [incomingSt EXCEPT
                      !.delivered["solana"] = @ \cup PollingReports(incomingSt.txs)]
  /\ IncomingFrame

\* A scan of the EVM adapter completes.
IncomingPollEvm ==
  /\ incomingSt' = [incomingSt EXCEPT
                      !.delivered["evm"] = @ \cup EvmReports(incomingSt.txs)]
  /\ IncomingFrame

NextIncoming ==
  \/ IncomingTxMined
  \/ IncomingPollBitcoin
  \/ IncomingPollSolana
  \/ IncomingPollEvm

SpecIncoming == InitIncoming /\ [][NextIncoming]_vars

\* C25: onIncoming is invoked only for transactions in which the subscribed
\* address is a recipient, never for one the address only sent.
C25_OnlyIncomingReported ==
  \A k \in DOMAIN incomingSt.delivered :
    \A tx \in incomingSt.delivered[k] : tx.to = "addr"

---------------------------------------------------------------------------
\* C26: derivation is side-effect-free: a call of deriveForChain or of an
\* adapter's deriveAddress / derivePrivateKey leaves the caller's params
\* object as it was passed, its chain field in particular.
C26_ParamsLeftUnchanged ==
  last.fn # "none" => callerParams = last.in

\* ---------------------------------------------------------------------------
\* Polling subscriptions of BitcoinAdapter and SolanaAdapter: setInterval fires
\* an async callback whether or not the previous one has returned, so several
\* requests can be in flight and their responses can arrive in any order.
\* ---------------------------------------------------------------------------

MaxPolls == 3

\* One request of the interval callback: sent, answered by the server with the
\* list it had at that moment, or consumed by the callback.
PollRequest(step, data) == [step |-> step, data |-> data]

LoopState(seen, calls, threw) == [seen |-> seen, calls |-> calls, threw |-> threw]

\* The loop with the tx id recorded only after onIncoming has returned.
RECURSIVE PollLoop_addAfterCallback(_, _, _, _)
PollLoop_addAfterCallback(st, txs, i, throwsAt) ==
  IF i > Len(txs) THEN st
  ELSE IF txs[i] \in st.seen THEN PollLoop_addAfterCallback(st, txs, i + 1, throwsAt)
  ELSE LET called == [st EXCEPT !.calls[txs[i]] = @ + 1]
       IN IF txs[i] \in throwsAt
          THEN [called EXCEPT !.threw = @ + 1]
          ELSE PollLoop_addAfterCallback(
                 [called EXCEPT !.seen = @ \cup {txs[i]}], txs, i + 1, throwsAt)

\* for (const tx of txs) { if (!seen.has(tx.txid)) { seen.add(tx.txid);
\* onIncoming(tx.txid, 0n); } } inside try / catch: a callback that throws ends
\* the loop, the tx id is in seen already.  The loop body has no await.
RECURSIVE PollLoop(_, _, _, _)
PollLoop(st, txs, i, throwsAt) ==
  IF i > Len(txs) THEN st
  ELSE IF txs[i] \in st.seen THEN PollLoop(st, txs, i + 1, throwsAt)
  ELSE LET added == [st EXCEPT !.seen = @ \cup {txs[i]}, !.calls[txs[i]] = @ + 1]
       IN IF txs[i] \in throwsAt
          THEN [added EXCEPT !.threw = @ + 1]
          ELSE PollLoop(added, txs, i + 1, throwsAt)

InitPoll ==
  /\ walletSeed \in MasterSeeds
  /\ callerParams \in {PathParams(c, <<"0">>) : c \in {"bitcoin", "solana"}}
  /\ registry = EmptyRegistry
  /\ last = NoCall
  /\ again = NoCall
  /\ other = NoCall
  /\ pairOut = NoPair
  /\ ExtIdle

PollFrame ==
  UNCHANGED <<earlierVars, nonceSt, facadeSt, btcOut, validateSt, incomingSt, balSub, btcSend>>

\* a transaction involving the address is listed by the explorer, newest first
PollTxListed ==
  /\ \E t \in PollTxIds :
       /\ \A i \in 1..Len(pollSt.listed) : pollSt.listed[i] # t
       /\ pollSt' = [pollSt EXCEPT !.listed = <<t>> \o @]
  /\ PollFrame

\* the interval fires: the callback starts and sends its request
PollTick ==
  /\ pollSt.ticks < MaxPolls
  /\ pollSt' = [pollSt EXCEPT !.ticks = @ + 1,
                              !.requests = Append(@, PollRequest("sent", <<>>))]
  /\ PollFrame

\* the server answers one request with the list it has now
PollAnswer ==
  /\ \E r \in DOMAIN pollSt.requests :
       /\ pollSt.requests[r].step = "sent"
       /\ pollSt' = [pollSt EXCEPT !.requests[r] = PollRequest("answered", pollSt.listed)]
  /\ PollFrame

\* a response reaches its callback, in any order among those in flight; the
\* loop runs to its end or to the first onIncoming that throws
PollResponse ==
  /\ \E r \in DOMAIN pollSt.requests, throwsAt \in SUBSET PollTxIds :
       /\ pollSt.requests[r].step = "answered"
       /\ LET out == PollLoop(LoopState(pollSt.seen, pollSt.calls, pollSt.threw),
                              pollSt.requests[r].data, 1, throwsAt)
          IN pollSt' = [pollSt EXCEPT !.requests[r] = PollRequest("done", @.data),
                                      !.seen = out.seen,
                                      !.calls = out.calls,
                                      !.threw = out.threw]
  /\ PollFrame

\* the request fails: the catch block logs, nothing is delivered
PollRequestFails ==
  /\ \E r \in DOMAIN pollSt.requests :
       /\ pollSt.requests[r].step = "sent"
       /\ pollSt' = [pollSt EXCEPT !.requests[r] = PollRequest("done", <<>>)]
  /\ PollFrame

NextPoll ==
  \/ PollTxListed
  \/ PollTick
  \/ PollAnswer
  \/ PollResponse
  \/ PollRequestFails

SpecPoll == InitPoll /\ [][NextPoll]_vars

\* C27: a polling subscription passes each tx id to onIncoming at most once,
\* whatever the order of the responses of overlapping polls and whether or not
\* the callback throws.
C27_EachTxAtMostOnce ==
  \A t \in PollTxIds : pollSt.calls[t] <= 1

\* two polls overlapped, both responses listed the same transaction and were
\* consumed, and the callback threw once
C27_OverlappingPollsAndThrow ==
  /\ pollSt.threw > 0
  /\ \E r1, r2 \in DOMAIN pollSt.requests :
       /\ r1 # r2
       /\ pollSt.requests[r1].step = "done" /\ pollSt.requests[r2].step = "done"
       /\ pollSt.requests[r1].data # <<>>
       /\ pollSt.requests[r1].data = pollSt.requests[r2].data

\* ---------------------------------------------------------------------------
\* EvmAdapter.subscribe: every "block" event starts an async handler that
\* awaits provider.getBalance(address); the handlers of successive blocks run
\* concurrently and their responses can arrive in any order.
\* ---------------------------------------------------------------------------

MaxBalance == 2
MaxBlocks == 3

BalanceRequest(step, bal) == [step |-> step, bal |-> bal]

\* if (bal.gt(last)) onIncoming(`block${block}`, bal.sub(last)); last = bal;
EvmAdapter_handler(st, bal) ==
  [st EXCEPT !.sum = IF bal > st.last THEN @ + (bal - st.last) ELSE @,
             !.last = bal]

InitBalance ==
  /\ walletSeed \in MasterSeeds
  /\ callerParams \in {PathParams(c, <<"0">>) : c \in EvmChainSet}
  /\ registry = EmptyRegistry
  /\ last = NoCall
  /\ again = NoCall
  /\ other = NoCall
  /\ pairOut = NoPair
  /\ ExtIdle

BalanceFrame ==
  UNCHANGED <<earlierVars, nonceSt, facadeSt, btcOut, validateSt, incomingSt, pollSt, btcSend>>

\* the address receives funds; its balance never decreases
BalanceDeposit ==
  /\ \E amount \in 1..MaxBalance :
       /\ balSub.balance + amount <= MaxBalance
       /\ balSub' = [balSub EXCEPT !.balance = @ + amount]
  /\ BalanceFrame

\* let last = await this.provider.getBalance(address); wsProvider.on("block", handler)
BalanceSubscribe ==
  /\ ~balSub.subscribed
  /\ balSub' = [balSub EXCEPT !.subscribed = TRUE,
                              !.initial = balSub.balance,
                              !.last = balSub.balance]
  /\ BalanceFrame

\* a block event: the handler starts and sends its getBalance request
BalanceBlock ==
  /\ balSub.subscribed
  /\ balSub.blocks < MaxBlocks
  /\ balSub' = [balSub EXCEPT !.blocks = @ + 1,
                              !.requests = Append(@, BalanceRequest("sent", 0))]
  /\ BalanceFrame

\* the node answers one request with the balance it has now
BalanceAnswer ==
  /\ \E r \in DOMAIN balSub.requests :
       /\ balSub.requests[r].step = "sent"
       /\ balSub' = [balSub EXCEPT !.requests[r] = BalanceRequest("answered", balSub.balance)]
  /\ BalanceFrame

\* a response reaches its handler, in any order among those in flight
BalanceResponse ==
  /\ \E r \in DOMAIN balSub.requests :
       /\ balSub.requests[r].step = "answered"
       /\ balSub' = [EvmAdapter_handler(balSub, balSub.requests[r].bal)
                       EXCEPT !.requests[r] = BalanceRequest("done", @.bal)]
  /\ BalanceFrame

NextBalance ==
  \/ BalanceDeposit
  \/ BalanceSubscribe
  \/ BalanceBlock
  \/ BalanceAnswer
  \/ BalanceResponse

SpecBalance == InitBalance /\ [][NextBalance]_vars

\* the greatest balance a finished handler has read
GreatestObserved ==
  LET read == {balSub.initial} \cup
              {balSub.requests[r].bal : r \in {q \in DOMAIN balSub.requests :
                                                 balSub.requests[q].step = "done"}}
  IN CHOOSE b \in read : \A c \in read : c <= b

\* C28: for an address whose balance never decreases, once every handler has
\* finished, the sum of the amounts passed to onIncoming is the last balance
\* observed (the closure's `last`, or the latest balance of the chain that a
\* handler has read) minus the balance read at subscribe time.
C28_SumIsBalanceGain ==
  (/\ balSub.subscribed
   /\ \A r \in DOMAIN balSub.requests : balSub.requests[r].step = "done")
  => \/ balSub.sum = balSub.last - balSub.initial
     \/ balSub.sum = GreatestObserved - balSub.initial

\* ---------------------------------------------------------------------------
\* BitcoinAdapter.send: fetch the UTXOs of the derived address, add inputs
\* until they cover amount + fee, add the recipient's output and the change
\* output, sign, broadcast.  Three versions of send exist: a fixed fee with
\* number values, a fixed fee with Big values, and a fee rate per vbyte.
\* ---------------------------------------------------------------------------

MaxUtxos == 3

FixedFee == 1000
InputVBytes == 68
OutputVBytes == 31
OutputCount == 2

SendVariants == {"number", "big", "feeRate"}
FeeRates == {1, 2}
UtxoValues == {500, 1000, 2000}
SendAmounts == {0 - 500, 0, 500, 1500, 3000}

RECURSIVE UtxoListsOfLen(_)
UtxoListsOfLen(n) ==
  IF n = 0 THEN {<<>>}
  ELSE {Append(l, v) : l \in UtxoListsOfLen(n - 1), v \in UtxoValues}

UtxoLists == UNION {UtxoListsOfLen(n) : n \in 0..MaxUtxos}

\* the fee for a transaction of n inputs: 1000, or feeRateSatPerVByte times
\* (inputs * 68 + 2 * 31) vbytes
SendFee(variant, rate, n) ==
  IF variant = "feeRate"
  THEN rate * (n * InputVBytes + OutputCount * OutputVBytes)
  ELSE FixedFee

\* for (const utxo of utxos) { addInput; inputSum += utxo.value;
\*   if (inputSum >= amount + fee) break; }
RECURSIVE SelectInputs(_, _, _, _, _, _)
SelectInputs(variant, rate, amount, utxos, n, inputSum) ==
  IF n = Len(utxos) THEN [inputs |-> n, inputSum |-> inputSum]
  ELSE LET sum == inputSum + utxos[n + 1]
       IN IF sum >= amount + SendFee(variant, rate, n + 1)
          THEN [inputs |-> n + 1, inputSum |-> sum]
          ELSE SelectInputs(variant, rate, amount, utxos, n + 1, sum)

\* value of the change output: inputSum - amount - fee
ChangeValue(inputSum, amount, fee) == inputSum - amount - fee

\* an addOutput that takes any value
Psbt_addOutput_anyValue(variant, value) ==
  IF variant = "number" THEN {"ok", "throws"} ELSE {"ok"}

\* psbt.addOutput({address, value}): the library refuses a negative value; a
\* number where the installed release wants a bigint is refused by that
\* release and taken by an earlier one
Psbt_addOutput(variant, value) ==
  IF value < 0 THEN {"throws"}
  ELSE IF variant = "number" THEN {"ok", "throws"}
  ELSE {"ok"}

InitBtcSend ==
  /\ walletSeed \in MasterSeeds
  /\ callerParams = PathParams("bitcoin", <<"0">>)
  /\ registry = EmptyRegistry
  /\ last = NoCall
  /\ again = NoCall
  /\ other = NoCall
  /\ pairOut = NoPair
  /\ ExtIdle

BtcSendFrame ==
  UNCHANGED <<earlierVars, nonceSt, facadeSt, btcOut, validateSt, incomingSt, pollSt, balSub>>

\* send(params, to, amount[, feeRateSatPerVByte]) is called and requests the UTXOs
BtcSendCall ==
  /\ btcSend.step = "idle"
  /\ \E variant \in SendVariants, amount \in SendAmounts, rate \in FeeRates :
       /\ variant # "feeRate" => rate = 1
       /\ btcSend' = [NoBtcSend EXCEPT !.variant = variant, !.rate = rate,
                                       !.amount = amount, !.step = "fetching"]
  /\ BtcSendFrame

\* the explorer does not answer: the await rejects
BtcSendFetchFails ==
  /\ btcSend.step = "fetching"
  /\ btcSend' = [btcSend EXCEPT !.step = "failed", !.err = <<"network error">>]
  /\ BtcSendFrame

\* the explorer lists the UTXOs; inputs are selected, both outputs added, the
\* inputs signed and finalized
BtcSendBuild ==
  /\ btcSend.step = "fetching"
  /\ \E utxos \in UtxoLists, signs \in BOOLEAN :
       LET sel    == SelectInputs(btcSend.variant, btcSend.rate, btcSend.amount, utxos, 0, 0)
           fee    == SendFee(btcSend.variant, btcSend.rate, sel.inputs)
           change == ChangeValue(sel.inputSum, btcSend.amount, fee)
           psbt   == [btcSend EXCEPT !.utxos = utxos, !.inputs = sel.inputs,
                                     !.inputSum = sel.inputSum, !.fee = fee,
                                     !.change = change]
       IN \E toOut \in Psbt_addOutput(btcSend.variant, btcSend.amount),
             changeOut \in Psbt_addOutput(btcSend.variant, change) :
            btcSend' =
              IF toOut = "throws" \/ changeOut = "throws"
              THEN [psbt EXCEPT !.step = "failed", !.err = <<"Error adding output">>]
              ELSE IF ~signs
              THEN [psbt EXCEPT !.step = "failed", !.err = <<"Can not sign">>]
              ELSE [psbt EXCEPT !.step = "signed"]
  /\ BtcSendFrame

\* axios.post(`${explorerApi}/tx`, rawTx) succeeds: the transaction is out
BtcSendBroadcast ==
  /\ btcSend.step = "signed"
  /\ btcSend' = [btcSend EXCEPT !.step = "broadcast"]
  /\ BtcSendFrame

\* the post is refused or lost
BtcSendBroadcastFails ==
  /\ btcSend.step = "signed"
  /\ btcSend' = [btcSend EXCEPT !.step = "failed", !.err = <<"broadcast failed">>]
  /\ BtcSendFrame

NextBtcSend ==
  \/ BtcSendCall
  \/ BtcSendFetchFails
  \/ BtcSendBuild
  \/ BtcSendBroadcast
  \/ BtcSendBroadcastFails

SpecBtcSend == InitBtcSend /\ [][NextBtcSend]_vars

RECURSIVE SumOf(_, _)
SumOf(values, n) == IF n = 0 THEN 0 ELSE values[n] + SumOf(values, n - 1)

InsufficientFundsFails ==
  /\ btcSend.step = "failed"
  /\ btcSend.utxos # <<>>
  /\ btcSend.amount > 0
  /\ SumOf(btcSend.utxos, Len(btcSend.utxos)) < btcSend.amount + btcSend.fee

====
